---- MODULE Spec2Model ----
(***************************************************************************)
(* A model of the HLS stream monitor (backend/app): the alert engine       *)
(* (services/alert_service.py), the Monitor Engine with its per-stream     *)
(* supervisor and segment-processing tasks (services/stream_monitor.py),   *)
(* the event bus (services/websocket_manager.py) and the thumbnail cache   *)
(* (services/thumbnail_generator.py).                                      *)
(*                                                                         *)
(* Python dictionaries are partial functions (DOMAIN is the key set);      *)
(* Python objects shared by reference (Alert) live in a heap keyed by the  *)
(* alert counter.  Each asyncio task advances from one await to the next   *)
(* in one action: the code between two awaits runs without interleaving.   *)
(* Floats are scaled integers: error rates in 1/100 %, ratios in 1/100.    *)
(***************************************************************************)
EXTENDS Integers, Sequences, FiniteSets, TLC

\* ------------------------------------------------------------------------
\* Bounds of the model
\* ------------------------------------------------------------------------
MaxAlerts == 2          \* alerts ever created (alert_counter)
MaxTime == 1            \* clock ticks (hours)
MaxAdds == 1            \* supervisor tasks ever created
MaxSegTasks == 2        \* segment-processing tasks ever created
MaxVariants == 3        \* variants of a master playlist given to the selection
MaxBroadcasts == 2      \* broadcast calls in flight at a time, beside the monitor's tasks

Streams == {"a"}
None == "None"
\* Optional[datetime] = None, among integer times
NoTime == -1

\* ------------------------------------------------------------------------
\* Partial functions (dict)
\* ------------------------------------------------------------------------
EmptyMap == [x \in {} |-> None]
Put(f, k, v) == [x \in DOMAIN f \cup {k} |-> IF x = k THEN v ELSE f[x]]
Del(f, k) == [x \in DOMAIN f \ {k} |-> f[x]]
\* dict.update
Update(f, g) == [x \in DOMAIN f \cup DOMAIN g |-> IF x \in DOMAIN g THEN g[x] ELSE f[x]]

RECURSIVE SeqFilterRec(_, _, _)
SeqFilterRec(s, keep, i) ==
    IF i > Len(s) THEN <<>>
    ELSE IF s[i] \in keep THEN <<s[i]>> \o SeqFilterRec(s, keep, i + 1)
    ELSE SeqFilterRec(s, keep, i + 1)
\* the subsequence of s of the elements in keep
SeqFilter(s, keep) == SeqFilterRec(s, keep, 1)
Range(s) == {s[i] : i \in DOMAIN s}

\* ------------------------------------------------------------------------
\* Alert engine: services/alert_service.py
\* ------------------------------------------------------------------------
AlertSeverity == {"info", "warning", "error", "critical"}
AlertType == {"health_degraded", "health_critical", "high_error_rate",
              "continuity_errors", "high_ttfb", "slow_download"}

\* AlertThresholds
HEALTH_WARNING == 60
HEALTH_CRITICAL == 40
ERROR_RATE_WARNING == 100
ERROR_RATE_CRITICAL == 500
CONTINUITY_WARNING == 5
CONTINUITY_CRITICAL == 20
TTFB_WARNING == 500
TTFB_CRITICAL == 1000
DOWNLOAD_RATIO_WARNING == 80
DOWNLOAD_RATIO_CRITICAL == 50

VARIABLES
    \* alert engine (AlertService)
    active_alerts,      \* _active_alerts: stream_id -> (alert_type -> alert reference)
    alert_history,      \* _alert_history: list of alert references
    alert_counter,      \* _alert_counter
    alerts,             \* the Alert objects, by reference (= counter at creation)
    webhook_tasks,      \* the webhook_service.send_alert tasks created, by alert
    last_checks,        \* _last_checks: the stream ids with an entry
    now,                \* datetime.utcnow(), in hours
    \* Monitor Engine (StreamMonitor): the keyed registries
    active_streams,     \* stream_id -> StreamConfig
    monitoring_tasks,   \* stream_id -> the supervisor task (its position and locals)
    seen_segments,      \* stream_id -> set of segment URIs
    stream_metrics,     \* stream_id -> latest SegmentMetrics
    segment_counter,    \* stream_id -> segment count
    thumbnails_buffer,  \* stream_id -> list of thumbnails (by sequence)
    stream_health,      \* stream_id -> StreamHealth
    last_manifest_state,\* stream_id -> {variant_count: ...}
    metrics_history,    \* stream_id -> list of SegmentMetrics
    scte35_events,      \* stream_id -> list of SCTE-35 events
    loudness_history,   \* stream_id -> list of loudness data
    tracking,           \* the remaining dictionaries: name -> the stream ids with an entry
    \* tasks spawned with asyncio.create_task
    segment_tasks,      \* the _process_segment tasks in flight: task id -> position and locals
    tasks_spawned,      \* how many tasks of each kind were ever created
    \* thumbnail generator (ThumbnailGenerator)
    thumb_cache,        \* _cache: stream_id -> sequence of the cached thumbnail
    thumbnail_registry, \* _thumbnail_registry: stream_id -> set of sequences
    \* event bus (WebSocketManager)
    active_connections, \* stream_id -> set of connections
    accepted,           \* the websockets ever accepted (a websocket connects once)
    broadcasts,         \* the broadcast calls in flight that no task of the monitor made
    \* what the last step handed to the outside: bus sends and log writes
    emitted,
    \* the variant selection on its own
    variant_streams,    \* the variants parsed from a master playlist
    best_variant,       \* the outcome of the selection: [called, raised, value]
    \* the log store (LoggerService) and its files
    log_files,          \* the files under logs_dir: [dir, day, gz] -> the lines of the file
    log_clock,          \* datetime.now(self._local_tz), in half days
    log_counter,        \* the number of write_event calls made
    log_writes,         \* the write_event calls in flight
    log_rotation,       \* the rotate_logs call of the hourly worker
    log_written,        \* history: the appends that succeeded, [event, dir, time]
    log_deleted,        \* history: the files _try_delete_file unlinked
    \* the MPEG-TS analyzer (the process-wide TSAnalyzer) and the call under way
    ts_segment,         \* the 188-byte chunks of the segment file
    ts_pos,             \* packet_num: the chunks read so far
    ts_metrics,         \* the TSMetrics the call is filling in
    ts_analyzer,        \* cc_trackers, last_pcr, last_pcr_packet
    ts_initial,         \* history: the analyzer when the call began
    \* HealthScore.compute on its own
    compute_args,       \* the arguments of the call
    computed,           \* [called, value]: the HealthScore returned
    \* the analysis tasks _process_segment creates
    analysis_tasks,     \* the _analyze_loudness and _analyze_ts tasks in flight
    sent,               \* history: the send_text calls of segment_downloaded and
                        \* health_update events and, for each of these events
                        \* published, its subscribers at that moment
    \* the webhook service
    session,            \* WebhookService.session: "none", "open" or "closed"
    webhooks,           \* WebhookService.webhooks: id -> WebhookConfig
    webhook_ops,        \* the number of requests that changed webhooks
    send_events,        \* the calls of send_event, in call order
    \* MetricsCalculator.calculate_all_metrics on its own
    segment_data,       \* the download and the probe: [size, download_time, probe]
    calculated,         \* [called, metrics]: the SegmentMetrics recorded
    \* the process-wide TSAnalyzer given the segments of several streams
    ts_calls,           \* history: the analyze_segment calls made, [stream_id, segment, metrics]
    \* the per-file locks of the log store
    file_locks,         \* LoggerService._file_locks: path -> the asyncio.Lock, [locked, waiters]
    appends,            \* the append of each write_event call in flight: [log_file, step]
    \* analyze_segment reading a file whose size is no multiple of 188
    ts_tail,            \* the bytes of the file behind its last complete 188-byte chunk
    ts_returned         \* whether analyze_segment has returned

alertVars == <<active_alerts, alert_history, alert_counter, alerts, webhook_tasks,
               last_checks, now>>
registryVars == <<active_streams, monitoring_tasks, seen_segments, stream_metrics,
                  segment_counter, thumbnails_buffer, stream_health, last_manifest_state,
                  metrics_history, scte35_events, loudness_history, tracking>>
taskVars == <<segment_tasks, tasks_spawned>>
thumbVars == <<thumb_cache, thumbnail_registry>>
busVars == <<active_connections, accepted, broadcasts>>
variantVars == <<variant_streams, best_variant>>
logVars == <<log_files, log_clock, log_counter, log_writes, log_rotation, log_written,
             log_deleted>>
tsVars == <<ts_segment, ts_pos, ts_metrics, ts_analyzer, ts_initial>>
computeVars == <<compute_args, computed>>
analysisVars == <<analysis_tasks, sent>>
webhookVars == <<session, webhooks, webhook_ops, send_events>>
metricsVars == <<segment_data, calculated>>
\* the units that are also run on their own, apart from the services
sharedVars == <<ts_calls>>
lockVars == <<file_locks, appends>>
fileVars == <<ts_tail, ts_returned>>
unitVars == <<metricsVars, sharedVars, lockVars, fileVars>>
vars == <<alertVars, registryVars, taskVars, thumbVars, busVars, emitted, variantVars,
          logVars, tsVars, computeVars, analysisVars, webhookVars, unitVars>>

\* The program's state as one value, so that operations compose.
State ==
    [active_alerts |-> active_alerts, alert_history |-> alert_history,
     alert_counter |-> alert_counter, alerts |-> alerts, webhook_tasks |-> webhook_tasks,
     last_checks |-> last_checks, now |-> now,
     active_streams |-> active_streams, monitoring_tasks |-> monitoring_tasks,
     seen_segments |-> seen_segments, stream_metrics |-> stream_metrics,
     segment_counter |-> segment_counter, thumbnails_buffer |-> thumbnails_buffer,
     stream_health |-> stream_health, last_manifest_state |-> last_manifest_state,
     metrics_history |-> metrics_history, scte35_events |-> scte35_events,
     loudness_history |-> loudness_history, tracking |-> tracking,
     segment_tasks |-> segment_tasks, tasks_spawned |-> tasks_spawned,
     thumb_cache |-> thumb_cache, thumbnail_registry |-> thumbnail_registry,
     active_connections |-> active_connections, accepted |-> accepted,
     broadcasts |-> broadcasts,
     emitted |-> {}]

\* The variables of the services after a step that left them in state st.
SetProgram(st) ==
    /\ active_alerts' = st.active_alerts
    /\ alert_history' = st.alert_history
    /\ alert_counter' = st.alert_counter
    /\ alerts' = st.alerts
    /\ webhook_tasks' = st.webhook_tasks
    /\ last_checks' = st.last_checks
    /\ now' = st.now
    /\ active_streams' = st.active_streams
    /\ monitoring_tasks' = st.monitoring_tasks
    /\ seen_segments' = st.seen_segments
    /\ stream_metrics' = st.stream_metrics
    /\ segment_counter' = st.segment_counter
    /\ thumbnails_buffer' = st.thumbnails_buffer
    /\ stream_health' = st.stream_health
    /\ last_manifest_state' = st.last_manifest_state
    /\ metrics_history' = st.metrics_history
    /\ scte35_events' = st.scte35_events
    /\ loudness_history' = st.loudness_history
    /\ tracking' = st.tracking
    /\ segment_tasks' = st.segment_tasks
    /\ tasks_spawned' = st.tasks_spawned
    /\ thumb_cache' = st.thumb_cache
    /\ thumbnail_registry' = st.thumbnail_registry
    /\ active_connections' = st.active_connections
    /\ accepted' = st.accepted
    /\ broadcasts' = st.broadcasts
    /\ emitted' = st.emitted

\* The variables after a step that left the program in state st.
SetState(st) == SetProgram(st) /\ UNCHANGED <<variantVars, logVars, tsVars, computeVars, analysisVars, webhookVars, unitVars>>

\* Alert(...) with the dataclass defaults
NewAlert(id, stream_id, alert_type, severity, message, metadata, t) ==
    [alert_id |-> id, stream_id |-> stream_id, alert_type |-> alert_type,
     severity |-> severity, message |-> message, timestamp |-> t,
     metadata |-> metadata, acknowledged |-> FALSE, resolved |-> FALSE,
     resolved_at |-> NoTime]

\* a raise_alert without the check for an existing unresolved alert
RaiseWithoutDedupe(st, stream_id, alert_type, severity, message, metadata, t) ==
    LET act == IF stream_id \in DOMAIN st.active_alerts THEN st.active_alerts
               ELSE Put(st.active_alerts, stream_id, EmptyMap)
        id == st.alert_counter + 1
    IN  [st |-> [st EXCEPT
                    !.alert_counter = id,
                    !.active_alerts = Put(act, stream_id, Put(act[stream_id], alert_type, id)),
                    !.alert_history = Append(@, id),
                    !.alerts = Put(@, id, NewAlert(id, stream_id, alert_type,
                                                 severity, message, metadata, t)),
                    !.webhook_tasks = Append(@, id)],
         ret |-> id]

\* a raise_alert whose update of the unresolved alert also takes over the
\* severity and the message of the new call
RaiseEscalating(st, stream_id, alert_type, severity, message, metadata, t) ==
    LET act == IF stream_id \in DOMAIN st.active_alerts THEN st.active_alerts
               ELSE Put(st.active_alerts, stream_id, EmptyMap)
        st1 == [st EXCEPT !.active_alerts = act]
    IN  IF alert_type \in DOMAIN act[stream_id]
           /\ ~st.alerts[act[stream_id][alert_type]].resolved
        THEN LET ref == act[stream_id][alert_type]
             IN  [st |-> [st1 EXCEPT !.alerts[ref].timestamp = t,
                                     !.alerts[ref].severity = severity,
                                     !.alerts[ref].message = message,
                                     !.alerts[ref].metadata = Update(@, metadata)],
                  ret |-> None]
        ELSE RaiseWithoutDedupe(st, stream_id, alert_type, severity, message, metadata, t)

\* AlertService.raise_alert; result [st, ret]: ret is the new alert's id or None
raise_alert(st, stream_id, alert_type, severity, message, metadata, t) ==
    LET act == IF stream_id \in DOMAIN st.active_alerts THEN st.active_alerts
               ELSE Put(st.active_alerts, stream_id, EmptyMap)
        st1 == [st EXCEPT !.active_alerts = act]
    IN  IF alert_type \in DOMAIN act[stream_id]
           /\ ~st.alerts[act[stream_id][alert_type]].resolved
        THEN LET ref == act[stream_id][alert_type]
             IN  [st |-> [st1 EXCEPT !.alerts[ref].timestamp = t,
                                     !.alerts[ref].metadata = Update(@, metadata)],
                  ret |-> None]
        ELSE LET id == st.alert_counter + 1
             IN  [st |-> [st1 EXCEPT
                            !.alert_counter = id,
                            !.active_alerts = Put(act, stream_id, Put(act[stream_id], alert_type, id)),
                            !.alert_history = Append(@, id),
                            !.alerts = Put(@, id, NewAlert(id, stream_id, alert_type,
                                                         severity, message, metadata, t)),
                            !.webhook_tasks = Append(@, id)],
                  ret |-> id]

\* a resolve_alert that finds nothing to resolve
ResolveNothing(st, stream_id, alert_type, t) == [st |-> st, ret |-> FALSE]

\* AlertService.resolve_alert; result [st, ret]
resolve_alert(st, stream_id, alert_type, t) ==
    IF stream_id \notin DOMAIN st.active_alerts THEN [st |-> st, ret |-> FALSE]
    ELSE IF alert_type \notin DOMAIN st.active_alerts[stream_id] THEN [st |-> st, ret |-> FALSE]
    ELSE LET ref == st.active_alerts[stream_id][alert_type]
         IN  IF ~st.alerts[ref].resolved
             THEN [st |-> [st EXCEPT !.alerts[ref].resolved = TRUE,
                                     !.alerts[ref].resolved_at = t],
                   ret |-> TRUE]
             ELSE [st |-> st, ret |-> FALSE]

\* AlertService.acknowledge_alert; result [st, ret]
acknowledge_alert(st, stream_id, alert_id) ==
    IF stream_id \notin DOMAIN st.active_alerts THEN [st |-> st, ret |-> FALSE]
    ELSE LET hit == {ty \in DOMAIN st.active_alerts[stream_id] :
                        st.alerts[st.active_alerts[stream_id][ty]].alert_id = alert_id}
         IN  IF hit = {} THEN [st |-> st, ret |-> FALSE]
             ELSE LET ref == st.active_alerts[stream_id][CHOOSE ty \in hit : TRUE]
                  IN  [st |-> [st EXCEPT !.alerts[ref].acknowledged = TRUE], ret |-> TRUE]

\* AlertService.get_active_alerts: the unresolved alerts of the stream's map
get_active_alerts(st, stream_id) ==
    IF stream_id \notin DOMAIN st.active_alerts THEN {}
    ELSE {st.active_alerts[stream_id][ty] : ty \in
            {x \in DOMAIN st.active_alerts[stream_id] : ~st.alerts[st.active_alerts[stream_id][x]].resolved}}

\* The alert objects still referenced from the active map or the history.
Referenced(active, history) ==
    Range(history) \cup UNION {{active[s][ty] : ty \in DOMAIN active[s]} : s \in DOMAIN active}
Collect(st) ==
    [st EXCEPT !.alerts = [r \in DOMAIN st.alerts \cap Referenced(st.active_alerts, st.alert_history)
                            |-> st.alerts[r]]]

\* a cleanup_stream that empties the whole active map
CleanupEveryStream(st, stream_id) ==
    Collect([st EXCEPT !.active_alerts = EmptyMap,
                       !.last_checks = @ \ {stream_id}])

\* AlertService.cleanup_stream
cleanup_stream(st, stream_id) ==
    Collect([st EXCEPT !.active_alerts = IF stream_id \in DOMAIN @ THEN Del(@, stream_id) ELSE @,
                       !.last_checks = @ \ {stream_id}])

\* a cleanup_old_alerts that keeps the alerts resolved exactly at the cutoff
CleanupStrictlyOlder(st, max_age_hours, t) ==
    LET cutoff == t - max_age_hours
        keep == {r \in Range(st.alert_history) :
                    ~st.alerts[r].resolved
                    \/ (st.alerts[r].resolved_at # NoTime /\ st.alerts[r].resolved_at >= cutoff)}
    IN  Collect([st EXCEPT !.alert_history = SeqFilter(@, keep)])

\* AlertService.cleanup_old_alerts
cleanup_old_alerts(st, max_age_hours, t) ==
    LET cutoff == t - max_age_hours
        keep == {r \in Range(st.alert_history) :
                    ~st.alerts[r].resolved
                    \/ (st.alerts[r].resolved_at # NoTime /\ st.alerts[r].resolved_at > cutoff)}
    IN  Collect([st EXCEPT !.alert_history = SeqFilter(@, keep)])

\* check_health_thresholds with `ttfb_avg > TTFB_WARNING` for the warning
CheckHealthStrictTtfb(st, stream_id, health_score, error_rate, continuity_errors, ttfb_avg, download_ratio, t) ==
    LET \* health score alerts
        s1 == IF health_score < HEALTH_CRITICAL
              THEN raise_alert(st, stream_id, "health_critical", "critical",
                               [text |-> "Health score critical", value |-> health_score],
                               [health_score |-> health_score], t).st
              ELSE IF health_score < HEALTH_WARNING
              THEN raise_alert(resolve_alert(st, stream_id, "health_critical", t).st,
                               stream_id, "health_degraded", "warning",
                               [text |-> "Health score degraded", value |-> health_score],
                               [health_score |-> health_score], t).st
              ELSE resolve_alert(resolve_alert(st, stream_id, "health_critical", t).st,
                                 stream_id, "health_degraded", t).st
        \* error rate alerts
        s2 == IF error_rate >= ERROR_RATE_CRITICAL
              THEN raise_alert(s1, stream_id, "high_error_rate", "error",
                               [text |-> "High error rate", value |-> error_rate],
                               [error_rate |-> error_rate], t).st
              ELSE IF error_rate >= ERROR_RATE_WARNING
              THEN raise_alert(s1, stream_id, "high_error_rate", "warning",
                               [text |-> "Elevated error rate", value |-> error_rate],
                               [error_rate |-> error_rate], t).st
              ELSE resolve_alert(s1, stream_id, "high_error_rate", t).st
        \* continuity error alerts
        s3 == IF continuity_errors >= CONTINUITY_CRITICAL
              THEN raise_alert(s2, stream_id, "continuity_errors", "error",
                               [text |-> "High continuity errors", value |-> continuity_errors],
                               [count |-> continuity_errors], t).st
              ELSE IF continuity_errors >= CONTINUITY_WARNING
              THEN raise_alert(s2, stream_id, "continuity_errors", "warning",
                               [text |-> "Continuity errors detected", value |-> continuity_errors],
                               [count |-> continuity_errors], t).st
              ELSE resolve_alert(s2, stream_id, "continuity_errors", t).st
        \* TTFB alerts
        s4 == IF ttfb_avg >= TTFB_CRITICAL
              THEN raise_alert(s3, stream_id, "high_ttfb", "error",
                               [text |-> "Very high TTFB", value |-> ttfb_avg], [ttfb_ms |-> ttfb_avg], t).st
              ELSE IF ttfb_avg > TTFB_WARNING
              THEN raise_alert(s3, stream_id, "high_ttfb", "warning",
                               [text |-> "High TTFB", value |-> ttfb_avg], [ttfb_ms |-> ttfb_avg], t).st
              ELSE resolve_alert(s3, stream_id, "high_ttfb", t).st
        \* download speed alerts
        s5 == IF download_ratio <= DOWNLOAD_RATIO_CRITICAL
              THEN raise_alert(s4, stream_id, "slow_download", "error",
                               [text |-> "Slow download", value |-> download_ratio],
                               [ratio |-> download_ratio], t).st
              ELSE IF download_ratio <= DOWNLOAD_RATIO_WARNING
              THEN raise_alert(s4, stream_id, "slow_download", "warning",
                               [text |-> "Download speed degraded", value |-> download_ratio],
                               [ratio |-> download_ratio], t).st
              ELSE resolve_alert(s4, stream_id, "slow_download", t).st
    IN  s5

\* AlertService.check_health_thresholds
check_health_thresholds(st, stream_id, health_score, error_rate, continuity_errors, ttfb_avg, download_ratio, t) ==
    LET \* health score alerts
        s1 == IF health_score < HEALTH_CRITICAL
              THEN raise_alert(st, stream_id, "health_critical", "critical",
                               [text |-> "Health score critical", value |-> health_score],
                               [health_score |-> health_score], t).st
              ELSE IF health_score < HEALTH_WARNING
              THEN raise_alert(resolve_alert(st, stream_id, "health_critical", t).st,
                               stream_id, "health_degraded", "warning",
                               [text |-> "Health score degraded", value |-> health_score],
                               [health_score |-> health_score], t).st
              ELSE resolve_alert(resolve_alert(st, stream_id, "health_critical", t).st,
                                 stream_id, "health_degraded", t).st
        \* error rate alerts
        s2 == IF error_rate >= ERROR_RATE_CRITICAL
              THEN raise_alert(s1, stream_id, "high_error_rate", "error",
                               [text |-> "High error rate", value |-> error_rate],
                               [error_rate |-> error_rate], t).st
              ELSE IF error_rate >= ERROR_RATE_WARNING
              THEN raise_alert(s1, stream_id, "high_error_rate", "warning",
                               [text |-> "Elevated error rate", value |-> error_rate],
                               [error_rate |-> error_rate], t).st
              ELSE resolve_alert(s1, stream_id, "high_error_rate", t).st
        \* continuity error alerts
        s3 == IF continuity_errors >= CONTINUITY_CRITICAL
              THEN raise_alert(s2, stream_id, "continuity_errors", "error",
                               [text |-> "High continuity errors", value |-> continuity_errors],
                               [count |-> continuity_errors], t).st
              ELSE IF continuity_errors >= CONTINUITY_WARNING
              THEN raise_alert(s2, stream_id, "continuity_errors", "warning",
                               [text |-> "Continuity errors detected", value |-> continuity_errors],
                               [count |-> continuity_errors], t).st
              ELSE resolve_alert(s2, stream_id, "continuity_errors", t).st
        \* TTFB alerts
        s4 == IF ttfb_avg >= TTFB_CRITICAL
              THEN raise_alert(s3, stream_id, "high_ttfb", "error",
                               [text |-> "Very high TTFB", value |-> ttfb_avg], [ttfb_ms |-> ttfb_avg], t).st
              ELSE IF ttfb_avg >= TTFB_WARNING
              THEN raise_alert(s3, stream_id, "high_ttfb", "warning",
                               [text |-> "High TTFB", value |-> ttfb_avg], [ttfb_ms |-> ttfb_avg], t).st
              ELSE resolve_alert(s3, stream_id, "high_ttfb", t).st
        \* download speed alerts
        s5 == IF download_ratio <= DOWNLOAD_RATIO_CRITICAL
              THEN raise_alert(s4, stream_id, "slow_download", "error",
                               [text |-> "Slow download", value |-> download_ratio],
                               [ratio |-> download_ratio], t).st
              ELSE IF download_ratio <= DOWNLOAD_RATIO_WARNING
              THEN raise_alert(s4, stream_id, "slow_download", "warning",
                               [text |-> "Download speed degraded", value |-> download_ratio],
                               [ratio |-> download_ratio], t).st
              ELSE resolve_alert(s4, stream_id, "slow_download", t).st
    IN  s5


\* ------------------------------------------------------------------------
\* Health score: models.py, HealthScore.compute
\* error_rate in 1/100 %, ttfb_avg in ms, download_ratio in 1/100
\* ------------------------------------------------------------------------
Min(a, b) == IF a < b THEN a ELSE b
Max(a, b) == IF a > b THEN a ELSE b

\* the penalties with the one for the error rate left uncapped
HealthPenaltiesUncapped(error_rate, continuity_errors, sync_errors, transport_errors, ttfb_avg, download_ratio, manifest_errors) ==
    [error_rate |-> IF error_rate > 0 THEN (error_rate * 10) \div 100 ELSE -1,
     continuity_errors |-> IF continuity_errors > 0 THEN Min(20, continuity_errors * 2) ELSE -1,
     sync_errors |-> IF sync_errors > 0 THEN Min(25, sync_errors * 5) ELSE -1,
     transport_errors |-> IF transport_errors > 0 THEN Min(15, transport_errors * 3) ELSE -1,
     high_ttfb |-> IF ttfb_avg > 500 THEN Min(10, (ttfb_avg - 500) \div 100) ELSE -1,
     slow_download |-> IF download_ratio < 100
                       THEN Min(15, ((100 - download_ratio) * 30) \div 100) ELSE -1,
     manifest_errors |-> IF manifest_errors > 0 THEN Min(10, manifest_errors * 5) ELSE -1]

HealthPenalties(error_rate, continuity_errors, sync_errors, transport_errors, ttfb_avg, download_ratio, manifest_errors) ==
    [error_rate |-> IF error_rate > 0 THEN Min(30, (error_rate * 10) \div 100) ELSE -1,
     continuity_errors |-> IF continuity_errors > 0 THEN Min(20, continuity_errors * 2) ELSE -1,
     sync_errors |-> IF sync_errors > 0 THEN Min(25, sync_errors * 5) ELSE -1,
     transport_errors |-> IF transport_errors > 0 THEN Min(15, transport_errors * 3) ELSE -1,
     high_ttfb |-> IF ttfb_avg > 500 THEN Min(10, (ttfb_avg - 500) \div 100) ELSE -1,
     slow_download |-> IF download_ratio < 100
                       THEN Min(15, ((100 - download_ratio) * 30) \div 100) ELSE -1,
     manifest_errors |-> IF manifest_errors > 0 THEN Min(10, manifest_errors * 5) ELSE -1]

RECURSIVE SumOver(_, _)
SumOver(f, keys) ==
    IF keys = {} THEN 0
    ELSE LET k == CHOOSE x \in keys : TRUE IN f[k] + SumOver(f, keys \ {k})

\* HealthScore.compute without score = max(0, score)
HealthScoreNoClamp(error_rate, continuity_errors, sync_errors, transport_errors, ttfb_avg, download_ratio, manifest_errors) ==
    LET pen == HealthPenalties(error_rate, continuity_errors, sync_errors, transport_errors,
                               ttfb_avg, download_ratio, manifest_errors)
        applied == {f \in DOMAIN pen : pen[f] >= 0}
        score == 100 - SumOver(pen, applied)
    IN  [score |-> score,
         color |-> IF score >= 80 THEN "green" ELSE IF score >= 50 THEN "yellow" ELSE "red",
         factors |-> [f \in applied |-> pen[f]]]

\* HealthScore.compute: -1 above marks a factor whose branch was not taken
HealthScoreCompute(error_rate, continuity_errors, sync_errors, transport_errors, ttfb_avg, download_ratio, manifest_errors) ==
    LET pen == HealthPenalties(error_rate, continuity_errors, sync_errors, transport_errors,
                               ttfb_avg, download_ratio, manifest_errors)
        applied == {f \in DOMAIN pen : pen[f] >= 0}
        score == Max(0, 100 - SumOver(pen, applied))
    IN  [score |-> score,
         color |-> IF score >= 80 THEN "green" ELSE IF score >= 50 THEN "yellow" ELSE "red",
         factors |-> [f \in applied |-> pen[f]]]

\* ------------------------------------------------------------------------
\* Event bus: services/websocket_manager.py
\* ------------------------------------------------------------------------
Ev(ch, stream_id, type, to) == [ch |-> ch, stream_id |-> stream_id, type |-> type, to |-> to]
Emit(st, e) == [st EXCEPT !.emitted = @ \cup {e}]

\* A broadcast suspended in send_text: the set iterator's recorded size (used), the
\* members of the set when the iteration began (start), the connections already
\* visited, the one being sent to, the failed ones, and whether the set object it
\* iterates was emptied and dropped from active_connections.
NoBc == [type |-> "none", used |-> 0, start |-> {}, visited |-> {}, cur |-> "none",
         failed |-> {}, detached |-> FALSE]

\* The set object of stream_id left the registry: the broadcasts iterating it keep it.
Detach(st, stream_id) ==
    [st EXCEPT
       !.monitoring_tasks = [i \in DOMAIN @ |->
            IF i = stream_id /\ @[i].pc = "send"
            THEN [@[i] EXCEPT !.bc.detached = TRUE] ELSE @[i]],
       !.segment_tasks = [t \in DOMAIN @ |->
            IF @[t].stream_id = stream_id /\ @[t].pc = "send"
            THEN [@[t] EXCEPT !.bc.detached = TRUE] ELSE @[t]],
       !.broadcasts = [b \in DOMAIN @ |->
            IF @[b].stream_id = stream_id
            THEN [@[b] EXCEPT !.bc.detached = TRUE] ELSE @[b]]]

\* set -= gone; the entry is deleted when the set became empty
DropConnections(st, stream_id, gone) ==
    LET left == st.active_connections[stream_id] \ gone
    IN  IF left = {}
        THEN Detach([st EXCEPT !.active_connections = Del(@, stream_id)], stream_id)
        ELSE [st EXCEPT !.active_connections[stream_id] = left]

\* WebSocketManager.connect, from websocket.accept() returning
connect(st, websocket, stream_id) ==
    [st EXCEPT !.active_connections =
                  Put(@, stream_id, (IF stream_id \in DOMAIN @ THEN @[stream_id] ELSE {})
                                    \cup {websocket}),
               !.accepted = @ \cup {websocket}]

\* a disconnect that leaves the emptied set in active_connections
DisconnectKeepsEntry(st, websocket, stream_id) ==
    IF stream_id \in DOMAIN st.active_connections
    THEN [st EXCEPT !.active_connections[stream_id] = @ \ {websocket}]
    ELSE st

\* WebSocketManager.disconnect
disconnect(st, websocket, stream_id) ==
    IF stream_id \in DOMAIN st.active_connections
    THEN DropConnections(st, stream_id, {websocket})
    ELSE st

\* WebSocketManager.broadcast up to its first send_text: the outcomes
\*   [status |-> "done"]       no subscriber set: returned without awaiting
\*   [status |-> "suspended"]  awaiting send_text to bc.cur
BroadcastStart(st, stream_id, type) ==
    LET st1 == Emit(st, Ev("publish", stream_id, type, "bus"))
    IN  IF stream_id \notin DOMAIN st.active_connections
        THEN {[status |-> "done", st |-> st1, bc |-> NoBc]}
        ELSE {[status |-> "suspended",
               st |-> Emit(st1, Ev("send", stream_id, type, c)),
               bc |-> [type |-> type, used |-> Cardinality(st.active_connections[stream_id]),
                       start |-> st.active_connections[stream_id],
                       visited |-> {}, cur |-> c, failed |-> {}, detached |-> FALSE]]
              : c \in st.active_connections[stream_id]}

\* a broadcast that ends without evicting the connections whose send failed
BroadcastKeepsFailed(st, stream_id, bc, ok) ==
    LET failed == IF ok THEN bc.failed ELSE bc.failed \cup {bc.cur}
        visited == bc.visited \cup {bc.cur}
        gone == bc.detached \/ stream_id \notin DOMAIN st.active_connections
    IN  IF gone \/ Cardinality(st.active_connections[stream_id]) # bc.used
        THEN {[status |-> "raise", st |-> st, bc |-> NoBc]}
        ELSE LET rest == st.active_connections[stream_id] \ visited
             IN  {[status |-> "suspended",
                   st |-> Emit(st, Ev("send", stream_id, bc.type, c)),
                   bc |-> [bc EXCEPT !.visited = visited, !.cur = c, !.failed = failed]]
                  : c \in rest}
                 \cup
                 (IF rest \cap bc.start = {}
                  THEN {[status |-> "done",
                         st |-> st,
                         bc |-> NoBc]}
                  ELSE {})

\* WebSocketManager.broadcast from a send_text that returned (ok) or raised (~ok):
\* the iterator's next() raises RuntimeError when the set's size differs from the
\* recorded one; at the end of the iteration the failed connections are evicted.
\* With the size unchanged the iterator yields every member it has not passed: each
\* unvisited member that was in the set from the start, and a member added since
\* only if its slot lies ahead, so the iteration may also end without it.
BroadcastResume(st, stream_id, bc, ok) ==
    LET failed == IF ok THEN bc.failed ELSE bc.failed \cup {bc.cur}
        visited == bc.visited \cup {bc.cur}
        gone == bc.detached \/ stream_id \notin DOMAIN st.active_connections
    IN  IF gone \/ Cardinality(st.active_connections[stream_id]) # bc.used
        THEN {[status |-> "raise", st |-> st, bc |-> NoBc]}
        ELSE LET rest == st.active_connections[stream_id] \ visited
             IN  {[status |-> "suspended",
                   st |-> Emit(st, Ev("send", stream_id, bc.type, c)),
                   bc |-> [bc EXCEPT !.visited = visited, !.cur = c, !.failed = failed]]
                  : c \in rest}
                 \cup
                 (IF rest \cap bc.start = {}
                  THEN {[status |-> "done",
                         st |-> IF failed # {} THEN DropConnections(st, stream_id, failed)
                                ELSE st,
                         bc |-> NoBc]}
                  ELSE {})

\* ------------------------------------------------------------------------
\* Thumbnail generator: services/thumbnail_generator.py
\* ------------------------------------------------------------------------
\* the greatest keep members of a set of sequence numbers
RECURSIVE Newest(_, _)
Newest(seqs, keep) ==
    IF keep = 0 \/ seqs = {} THEN {}
    ELSE LET top == CHOOSE x \in seqs : \A y \in seqs : y <= x
         IN  {top} \cup Newest(seqs \ {top}, keep - 1)

\* ThumbnailGenerator._cleanup_old_thumbnails
cleanup_old_thumbnails(st, stream_id, keep_count) ==
    IF stream_id \notin DOMAIN st.thumbnail_registry THEN st
    ELSE IF Cardinality(st.thumbnail_registry[stream_id]) <= keep_count THEN st
    ELSE [st EXCEPT !.thumbnail_registry[stream_id] = Newest(@, keep_count)]

\* ThumbnailGenerator.generate_thumbnail_for_segment, from extract_thumbnail returning
generate_thumbnail_for_segment(st, stream_id, sequence) ==
    cleanup_old_thumbnails(
        [st EXCEPT !.thumb_cache = Put(@, stream_id, sequence),
                   !.thumbnail_registry =
                      Put(@, stream_id, (IF stream_id \in DOMAIN @ THEN @[stream_id] ELSE {})
                                        \cup {sequence})],
        stream_id, 50)

\* ThumbnailGenerator.cleanup_stream_thumbnails
cleanup_stream_thumbnails(st, stream_id) ==
    [st EXCEPT !.thumb_cache = IF stream_id \in DOMAIN @ THEN Del(@, stream_id) ELSE @,
               !.thumbnail_registry = IF stream_id \in DOMAIN @ THEN Del(@, stream_id) ELSE @]

\* ------------------------------------------------------------------------
\* Monitor Engine: services/stream_monitor.py
\* ------------------------------------------------------------------------
\* the dictionaries of which only the key set matters here
Tracked == {"audio_metrics", "video_metrics", "error_counts", "last_sequence",
            "segment_gaps", "scte35_counts", "recording_enabled"}
InitialisedOnAdd == Tracked \ {"audio_metrics", "video_metrics"}

\* a parsed playlist: the variants and segments of _parse_manifest, the number of
\* ad markers of ad_detector.parse_manifest
NoManifest == [variants |-> <<>>, segments |-> <<>>, ads |-> 0]
\* VariantStream.bandwidth: Optional[int] = None
NoBandwidth == -1
NoDownload == [ttfb |-> 0, download_speed |-> 0, actual_bitrate |-> 0]

\* StreamHealth(status=StreamStatus.STARTING)
NewHealth == [status |-> "starting", health_score |-> 100, active_alerts |-> {},
              tr101290_metrics |-> [sync_byte_errors |-> 0, continuity_errors |-> 0,
                                    transport_errors |-> 0]]

\* the supervisor task created for _monitor_stream(stream_config): awaiting its
\* first _fetch_manifest(current_url)
NewSupervisor(manifest_url) ==
    [pc |-> "fetch", k |-> "none", bc |-> NoBc, current_url |-> manifest_url,
     m |-> NoManifest, n |-> 0]

\* the task created for _process_segment(stream_id, segment_url): awaiting
\* _download_segment
NewSegmentTask(stream_id, segment_url) ==
    [stream_id |-> stream_id, url |-> segment_url, pc |-> "download", k |-> "none",
     bc |-> NoBc, fname |-> -1, tseq |-> -1, d |-> NoDownload]

\* StreamMonitor.add_stream past its early return: the registries are initialised,
\* the supervisor task and the stream_added log task are created
InitialiseStream(st, stream_config) ==
    LET id == stream_config.id
    IN  Emit([st EXCEPT
                !.active_streams = Put(@, id, stream_config),
                !.seen_segments = Put(@, id, {}),
                !.segment_counter = Put(@, id, 0),
                !.thumbnails_buffer = Put(@, id, <<>>),
                !.stream_health = Put(@, id, NewHealth),
                !.last_manifest_state = Put(@, id, EmptyMap),
                !.metrics_history = Put(@, id, <<>>),
                !.scte35_events = Put(@, id, <<>>),
                !.loudness_history = Put(@, id, <<>>),
                !.tracking = [d \in DOMAIN @ |->
                                IF d \in InitialisedOnAdd THEN @[d] \cup {id} ELSE @[d]],
                !.monitoring_tasks = Put(@, id, NewSupervisor(stream_config.manifest_url)),
                !.tasks_spawned.supervisor = @ + 1],
             Ev("log", id, "stream_added", "stream"))

\* add_stream without its early return on an ID already monitored
AddStreamUnguarded(st, stream_config) == InitialiseStream(st, stream_config)

\* StreamMonitor.add_stream
add_stream(st, stream_config) ==
    IF stream_config.id \in DOMAIN st.active_streams
    THEN \* logger.warning("Stream ... already being monitored"); return
         Emit(st, Ev("logger", stream_config.id, "already being monitored", "warning"))
    ELSE InitialiseStream(st, stream_config)

DelKey(f, k) == IF k \in DOMAIN f THEN Del(f, k) ELSE f

\* StreamMonitor.remove_stream. task.cancel(): the supervisor is suspended in an
\* await, where CancelledError is raised when it would resume; no handler of
\* the loop catches it but `except asyncio.CancelledError: break`, so the cancelled
\* task runs no further statement and is dropped here.
remove_stream(st, stream_id) ==
    IF stream_id \notin DOMAIN st.active_streams THEN st
    ELSE LET st1 == [st EXCEPT
                       !.monitoring_tasks = DelKey(@, stream_id),
                       !.active_streams = DelKey(@, stream_id),
                       !.seen_segments = DelKey(@, stream_id),
                       !.segment_counter = DelKey(@, stream_id),
                       !.thumbnails_buffer = DelKey(@, stream_id),
                       !.stream_health = DelKey(@, stream_id),
                       !.last_manifest_state = DelKey(@, stream_id),
                       !.metrics_history = DelKey(@, stream_id),
                       !.scte35_events = DelKey(@, stream_id),
                       !.loudness_history = DelKey(@, stream_id),
                       !.tracking = [d \in DOMAIN @ |-> @[d] \ {stream_id}]]
             st2 == cleanup_stream_thumbnails(cleanup_stream(st1, stream_id), stream_id)
         IN  Emit(st2, Ev("log", stream_id, "stream_removed", "stream"))

RECURSIVE SumField(_, _, _)
SumField(s, field, i) == IF i > Len(s) THEN 0 ELSE s[i][field] + SumField(s, field, i + 1)
\* s[-n:]
LastN(s, n) == IF Len(s) <= n THEN s ELSE SubSeq(s, Len(s) - n + 1, Len(s))

\* StreamMonitor._update_health_score.  error_rate_last_hour and manifest_errors are
\* never written by the engine: they keep their defaults 0.0 and [].
update_health_score(st, stream_id) ==
    IF stream_id \notin DOMAIN st.stream_health THEN st
    ELSE LET recent == IF stream_id \in DOMAIN st.metrics_history
                       THEN LastN(st.metrics_history[stream_id], 20) ELSE <<>>
             n == Len(recent)
             ttfb_avg == IF n > 0 THEN SumField(recent, "ttfb", 1) \div n ELSE 0
             sum_download == SumField(recent, "download_speed", 1)
             sum_bitrate == SumField(recent, "actual_bitrate", 1)
             download_ratio == IF n > 0 /\ sum_bitrate > 0
                               THEN (sum_download * 100) \div sum_bitrate ELSE 100
             tr == st.stream_health[stream_id].tr101290_metrics
             health_score == HealthScoreCompute(0, tr.continuity_errors, tr.sync_byte_errors,
                                                tr.transport_errors, ttfb_avg,
                                                Min(download_ratio, 200), 0)
             st1 == [st EXCEPT !.stream_health[stream_id].health_score = health_score.score]
             st2 == check_health_thresholds(st1, stream_id, health_score.score, 0,
                                            tr.continuity_errors, ttfb_avg, download_ratio,
                                            st.now)
         IN  [st2 EXCEPT !.stream_health[stream_id].active_alerts =
                            get_active_alerts(st2, stream_id)]

\* a maximum that keeps the last of the greatest
RECURSIVE MaxByBandwidthLast(_, _, _)
MaxByBandwidthLast(variants, best, i) ==
    IF i > Len(variants) THEN best
    ELSE MaxByBandwidthLast(variants,
                            IF variants[i].bandwidth >= variants[best].bandwidth
                            THEN i ELSE best,
                            i + 1)

\* max(variant_streams, key=lambda x: x.bandwidth): the first of the greatest
RECURSIVE MaxByBandwidth(_, _, _)
MaxByBandwidth(variants, best, i) ==
    IF i > Len(variants) THEN best
    ELSE MaxByBandwidth(variants,
                        IF variants[i].bandwidth > variants[best].bandwidth
                        THEN i ELSE best,
                        i + 1)

\* The selection of _monitor_stream: the index of best_variant, or ok = FALSE when
\* max() raises TypeError (it compares a bandwidth that is None with another).
SelectVariant(variants) ==
    IF Len(variants) >= 2
       /\ \E i \in DOMAIN variants : variants[i].bandwidth = NoBandwidth
    THEN [ok |-> FALSE, index |-> 0]
    ELSE [ok |-> TRUE, index |-> MaxByBandwidth(variants, 1, 2)]

\* ---- the supervisor task: StreamMonitor._monitor_stream -----------------
\* A task is suspended at pc: "fetch" (await _fetch_manifest), "send" (await
\* send_text inside a broadcast, to continue at k), "sleep" and "err_sleep" (the
\* two asyncio.sleep), or "dead" (the coroutine ended with an exception).  The
\* operators give the set of states in which the task is suspended next: a
\* broadcast to a stream without subscribers returns without suspending.

\* the supervisor of stream_id suspended at pc, its locals dropped
SupAt(st, stream_id, pc) ==
    [st EXCEPT !.monitoring_tasks[stream_id] =
        [@ EXCEPT !.pc = pc, !.k = "none", !.bc = NoBc, !.m = NoManifest, !.n = 0]]

SetStatus(st, stream_id, status) ==
    IF stream_id \in DOMAIN st.stream_health
    THEN [st EXCEPT !.stream_health[stream_id].status = status] ELSE st

\* the loop over the segments without the seen-set: every listed URI gets a task
RECURSIVE SpawnEverySegment(_, _, _, _)
SpawnEverySegment(st, stream_id, segments, i) ==
    IF i > Len(segments) THEN st
    ELSE SpawnEverySegment(
            [st EXCEPT !.segment_tasks = Put(@, st.tasks_spawned.segment + 1,
                                             NewSegmentTask(stream_id, segments[i])),
                       !.tasks_spawned.segment = @ + 1],
            stream_id, segments, i + 1)

\* the loop "for segment_url in segments": new URIs enter the seen-set and get a task
RECURSIVE ProcessNewSegments(_, _, _, _)
ProcessNewSegments(st, stream_id, segments, i) ==
    IF i > Len(segments) THEN st
    ELSE IF segments[i] \notin st.seen_segments[stream_id]
    THEN ProcessNewSegments(
            [st EXCEPT !.seen_segments[stream_id] = @ \cup {segments[i]},
                       !.segment_tasks = Put(@, st.tasks_spawned.segment + 1,
                                             NewSegmentTask(stream_id, segments[i])),
                       !.tasks_spawned.segment = @ + 1],
            stream_id, segments, i + 1)
    ELSE ProcessNewSegments(st, stream_id, segments, i + 1)

RECURSIVE SupContinue(_, _, _), SupBroadcast(_, _, _, _)
\* await self._broadcast_event(stream_id, type, ...), then the code at k
SupBroadcast(st, stream_id, type, k) ==
    UNION {IF o.status = "done" THEN SupContinue(o.st, stream_id, k)
           ELSE {[o.st EXCEPT !.monitoring_tasks[stream_id].pc = "send",
                              !.monitoring_tasks[stream_id].k = k,
                              !.monitoring_tasks[stream_id].bc = o.bc]}
           : o \in BroadcastStart(st, stream_id, type)}

\* _monitor_stream from the statement after a broadcast
SupContinue(st, stream_id, k) ==
    LET task == st.monitoring_tasks[stream_id]
    IN  CASE k = "ads" ->
                \* for marker in ad_markers; then the new segments and manifest_updated
                IF task.n > 0
                THEN SupBroadcast([st EXCEPT !.monitoring_tasks[stream_id].n = @ - 1],
                                  stream_id, "ad_detected", "ads")
                ELSE SupBroadcast(ProcessNewSegments(st, stream_id, task.m.segments, 1),
                                  stream_id, "manifest_updated", "after_manifest_updated")
          [] k = "after_manifest_updated" ->
                \* _analyze_manifest_changes
                LET last_state == IF stream_id \in DOMAIN st.last_manifest_state
                                  THEN st.last_manifest_state[stream_id] ELSE EmptyMap
                IN  IF "variant_count" \in DOMAIN last_state
                       /\ last_state.variant_count # Len(task.m.variants)
                    THEN SupBroadcast(st, stream_id, "alarm", "after_alarm")
                    ELSE SupContinue(st, stream_id, "after_alarm")
          [] k = "after_alarm" ->
                {SupAt([st EXCEPT !.last_manifest_state =
                            Put(@, stream_id, [variant_count |-> Len(task.m.variants),
                                               last_check |-> st.now])],
                       stream_id, "sleep")}
          [] k = "after_error" -> {SupAt(st, stream_id, "err_sleep")}

\* except Exception as e: status ERROR, broadcast "error", sleep
SupHandler(st, stream_id) ==
    SupBroadcast(SetStatus(st, stream_id, "error"), stream_id, "error", "after_error")

\* a broadcast of the supervisor raised (RuntimeError from the set iterator)
SupRaise(st, stream_id, k) ==
    CASE k \in {"ads", "after_manifest_updated"} -> SupHandler(st, stream_id)
      [] k = "after_alarm" -> {SupAt(st, stream_id, "sleep")}  \* caught in _analyze_manifest_changes
      [] k = "after_error" -> {SupAt(st, stream_id, "dead")}   \* raised inside the handler

\* _fetch_manifest returned None: `if manifest_content:` is skipped
SupFetchedNone(st, stream_id) == {SupAt(st, stream_id, "sleep")}

\* the master-playlist branch without its `continue`: the variant is selected and
\* the iteration ends in the poll-interval sleep
SupFetchedThenSleep(st, stream_id, m) ==
    LET st1 == SetStatus(st, stream_id, "online")
    IN  IF m.segments = <<>> /\ m.variants # <<>>
        THEN LET sel == SelectVariant(m.variants)
             IN  IF ~sel.ok THEN SupHandler(st1, stream_id)
                 ELSE {SupAt(Emit([st1 EXCEPT !.monitoring_tasks[stream_id].current_url =
                                                  m.variants[sel.index].uri],
                                  Ev("log", stream_id, "variant_selected", "global")),
                             stream_id, "sleep")}
        ELSE SupContinue([st1 EXCEPT !.monitoring_tasks[stream_id].m = m,
                                     !.monitoring_tasks[stream_id].n = m.ads],
                         stream_id, "ads")

\* _fetch_manifest returned the playlist m
SupFetched(st, stream_id, m) ==
    LET st1 == SetStatus(st, stream_id, "online")
    IN  IF m.segments = <<>> /\ m.variants # <<>>
        THEN LET sel == SelectVariant(m.variants)
             IN  IF ~sel.ok THEN SupHandler(st1, stream_id)
                 ELSE {Emit([st1 EXCEPT !.monitoring_tasks[stream_id].current_url =
                                            m.variants[sel.index].uri],
                            Ev("log", stream_id, "variant_selected", "global"))}
        ELSE SupContinue([st1 EXCEPT !.monitoring_tasks[stream_id].m = m,
                                     !.monitoring_tasks[stream_id].n = m.ads],
                         stream_id, "ads")

\* the supervisor's send_text returned (ok) or raised
SupSent(st, stream_id, ok) ==
    LET task == st.monitoring_tasks[stream_id]
    IN  UNION {CASE o.status = "done" -> SupContinue(o.st, stream_id, task.k)
                 [] o.status = "raise" -> SupRaise(o.st, stream_id, task.k)
                 [] o.status = "suspended" ->
                        {[o.st EXCEPT !.monitoring_tasks[stream_id].bc = o.bc]}
               : o \in BroadcastResume(st, stream_id, task.bc, ok)}

\* ---- the segment-processing task: StreamMonitor._process_segment --------
\* Suspended at pc: "download" (await _download_segment), "probe" (await
\* _probe_duration), "thumb" (await generate_thumbnail_for_segment), "send",
\* "sprite_log" and "log" (await log_service.write_event).  A finished task leaves
\* segment_tasks.
SegAt(st, t, pc) ==
    [st EXCEPT !.segment_tasks[t] = [@ EXCEPT !.pc = pc, !.k = "none", !.bc = NoBc]]
SegEnd(st, t) == [st EXCEPT !.segment_tasks = Del(@, t)]

\* settings.SPRITE_SEGMENT_COUNT
SPRITE_SEGMENT_COUNT == 10

RECURSIVE SegContinue(_, _, _), SegBroadcast(_, _, _, _)
SegBroadcast(st, t, type, k) ==
    UNION {IF o.status = "done" THEN SegContinue(o.st, t, k)
           ELSE {[o.st EXCEPT !.segment_tasks[t].pc = "send",
                              !.segment_tasks[t].k = k,
                              !.segment_tasks[t].bc = o.bc]}
           : o \in BroadcastStart(st, st.segment_tasks[t].stream_id, type)}

\* except Exception as e: broadcast "error"; the task then ends
SegHandler(st, t) == SegBroadcast(st, t, "error", "end")

\* _process_segment from the statement after a broadcast; a missing key of a
\* removed stream raises KeyError into the handler
SegContinue(st, t, k) ==
    LET stream_id == st.segment_tasks[t].stream_id
    IN  CASE k = "after_thumbnail_generated" ->
                IF stream_id \notin DOMAIN st.thumbnails_buffer THEN SegHandler(st, t)
                ELSE IF Len(st.thumbnails_buffer[stream_id]) >= SPRITE_SEGMENT_COUNT
                THEN \* _generate_sprite: the buffer is cleared, then the broadcast
                     SegBroadcast([st EXCEPT !.thumbnails_buffer[stream_id] = <<>>],
                                  t, "sprite_generated", "after_sprite_generated")
                ELSE SegContinue(st, t, "analyze")
          [] k = "after_sprite_generated" ->
                {Emit(SegAt(st, t, "sprite_log"),
                      Ev("log", stream_id, "sprite_generated", "global"))}
          [] k = "analyze" ->
                \* the loudness and TS analysis tasks are created, the counter incremented
                LET st1 == [st EXCEPT !.tasks_spawned.loudness = @ + 1,
                                      !.tasks_spawned.ts = @ + 1]
                IN  IF stream_id \notin DOMAIN st.segment_counter THEN SegHandler(st1, t)
                    ELSE SegBroadcast([st1 EXCEPT !.segment_counter[stream_id] = @ + 1],
                                      t, "segment_downloaded", "after_segment_downloaded")
          [] k = "after_segment_downloaded" ->
                {Emit(SegAt(st, t, "log"),
                      Ev("log", stream_id, "segment_downloaded", "global"))}
          [] k = "end" -> {SegEnd(st, t)}

\* a broadcast of the task raised
SegRaise(st, t, k) ==
    CASE k \in {"after_thumbnail_generated", "after_segment_downloaded"} -> SegHandler(st, t)
      [] k = "after_sprite_generated" -> SegContinue(st, t, "analyze")  \* caught in _generate_sprite
      [] k = "end" -> {SegEnd(st, t)}                                   \* raised inside the handler

\* _download_segment returned None: `if not segment_data: return`
SegDownloadedNone(st, t) == {SegEnd(st, t)}

\* _download_segment returned data: the file name is built from the counter
SegDownloaded(st, t, d) ==
    LET stream_id == st.segment_tasks[t].stream_id
    IN  IF stream_id \notin DOMAIN st.segment_counter THEN SegHandler(st, t)
        ELSE {[st EXCEPT !.segment_tasks[t] =
                  [@ EXCEPT !.pc = "probe", !.fname = st.segment_counter[stream_id],
                            !.d = d]]}

\* append, keeping the last cap entries
AppendCapped(s, e, cap) == LastN(Append(s, e), cap)

\* _probe_duration returned: the metrics are built and stored, the health score
\* is updated, generate_thumbnail_for_segment is called with the counter
SegProbed(st, t) ==
    LET task == st.segment_tasks[t]
        stream_id == task.stream_id
    IN  IF stream_id \notin DOMAIN st.segment_counter THEN SegHandler(st, t)
        ELSE LET metrics == [uri |-> task.url, filename |-> task.fname,
                             sequence_number |-> st.segment_counter[stream_id],
                             ttfb |-> task.d.ttfb, download_speed |-> task.d.download_speed,
                             actual_bitrate |-> task.d.actual_bitrate]
                 st1 == [st EXCEPT
                           !.stream_metrics = Put(@, stream_id, metrics),
                           !.metrics_history =
                               IF stream_id \in DOMAIN @
                               THEN [@ EXCEPT ![stream_id] = AppendCapped(@, metrics, 500)]
                               ELSE @]
                 st2 == update_health_score(st1, stream_id)
             IN  {[st2 EXCEPT !.segment_tasks[t] =
                      [@ EXCEPT !.pc = "thumb", !.tseq = st.segment_counter[stream_id]]]}

\* generate_thumbnail_for_segment returned its path
SegThumbnailed(st, t) ==
    LET task == st.segment_tasks[t]
        stream_id == task.stream_id
        st1 == generate_thumbnail_for_segment(st, stream_id, task.tseq)
    IN  IF stream_id \notin DOMAIN st.thumbnails_buffer THEN SegHandler(st1, t)
        ELSE SegBroadcast([st1 EXCEPT !.thumbnails_buffer[stream_id] = Append(@, task.tseq)],
                          t, "thumbnail_generated", "after_thumbnail_generated")

\* the task's send_text returned (ok) or raised
SegSent(st, t, ok) ==
    LET task == st.segment_tasks[t]
    IN  UNION {CASE o.status = "done" -> SegContinue(o.st, t, task.k)
                 [] o.status = "raise" -> SegRaise(o.st, t, task.k)
                 [] o.status = "suspended" -> {[o.st EXCEPT !.segment_tasks[t].bc = o.bc]}
               : o \in BroadcastResume(st, task.stream_id, task.bc, ok)}

\* log_service.write_event returned
SegLogged(st, t) ==
    IF st.segment_tasks[t].pc = "sprite_log" THEN SegContinue(st, t, "analyze")
    ELSE {SegEnd(st, t)}

\* ---- the analysis tasks: StreamMonitor._analyze_loudness and _analyze_ts ----
\* A task of analysis_tasks is suspended at pc: "analyze" (await the analyzer),
\* "send" (its broadcast awaits send_text; the broadcast is held in broadcasts
\* under the task's id) or "log" (await log_service.write_stream_event).  The
\* operators take the services st and the tasks at and return the pairs
\* [st, at] the step can end in.  A finished task leaves the tasks.

\* the counts of a TSMetrics that _analyze_ts reads
NoTsResult == [sync_byte_errors |-> 0, continuity_errors |-> 0, transport_errors |-> 0,
               scte35_messages |-> 0]

NewAnalysisTask(kind, stream_id, segment) ==
    [kind |-> kind, stream_id |-> stream_id, segment |-> segment, pc |-> "analyze",
     k |-> "none", m |-> NoTsResult]

\* asyncio.create_task(self._analyze_loudness(...)) and
\* asyncio.create_task(self._analyze_ts(...)): the tasks that segment task t
\* created in its step from st to r
CreateAnalysisTasks(at, st, r, t) ==
    IF r.tasks_spawned.ts = st.tasks_spawned.ts THEN at
    ELSE LET n == r.tasks_spawned.ts
             seg == st.segment_tasks[t]
         IN  Put(Put(at, 2 * n - 1, NewAnalysisTask("loudness", seg.stream_id, seg.url)),
                 2 * n, NewAnalysisTask("ts", seg.stream_id, seg.url))

\* the coroutine returned, or its `except Exception` logged the error
AEnd(st, at, a) == [st |-> [st EXCEPT !.broadcasts = DelKey(@, a)], at |-> Del(at, a)]

RECURSIVE AContinue(_, _, _, _), ABroadcast(_, _, _, _, _)
\* await self._broadcast_event(stream_id, type, ...), then the code at k
ABroadcast(st, at, a, type, k) ==
    UNION {IF o.status = "done" THEN AContinue(o.st, at, a, k)
           ELSE {[st |-> [o.st EXCEPT !.broadcasts =
                             Put(@, a, [stream_id |-> at[a].stream_id, bc |-> o.bc])],
                  at |-> [at EXCEPT ![a].pc = "send", ![a].k = k]]}
           : o \in BroadcastStart(st, at[a].stream_id, type)}

\* the analysis coroutines from the statement after a broadcast
AContinue(st, at, a, k) ==
    LET task == at[a]
        stream_id == task.stream_id
    IN  CASE k = "after_loudness_data" ->
                {[st |-> Emit(st, Ev("log", stream_id, "loudness_analyzed", "stream")),
                  at |-> [at EXCEPT ![a].pc = "log", ![a].k = "none"]]}
          [] k = "continuity" ->
                IF task.m.continuity_errors > 0
                THEN ABroadcast(st, at, a, "alarm", "scte35")
                ELSE AContinue(st, at, a, "scte35")
          [] k = "scte35" ->
                IF task.m.scte35_messages > 0
                THEN LET event == [segment_sequence |->
                                      IF stream_id \in DOMAIN st.segment_counter
                                      THEN st.segment_counter[stream_id] ELSE 0,
                                   message_count |-> task.m.scte35_messages]
                         st1 == [st EXCEPT !.scte35_events =
                                    Put(@, stream_id,
                                        AppendCapped(IF stream_id \in DOMAIN @
                                                     THEN @[stream_id] ELSE <<>>,
                                                     event, 100))]
                     IN  ABroadcast(st1, at, a, "scte35_detected", "health_update")
                ELSE AContinue(st, at, a, "health_update")
          [] k = "health_update" -> ABroadcast(st, at, a, "health_update", "end")
          [] k = "end" -> {AEnd(st, at, a)}

\* loudness_analyzer.analyze_segment returned its dictionary (it returns one with
\* default values when ffmpeg failed): the entry is stored and broadcast
ALoudnessAnalyzed(st, at, a) ==
    LET task == at[a]
        stream_id == task.stream_id
        loudness_dict == [timestamp |-> task.segment]
        st1 == IF stream_id \in DOMAIN st.loudness_history
               THEN [st EXCEPT !.loudness_history[stream_id] =
                                  AppendCapped(@, loudness_dict, 200)]
               ELSE st
    IN  ABroadcast(st1, at, a, "loudness_data", "after_loudness_data")

\* asyncio.to_thread(ts_analyzer.analyze_segment, segment_path) returned metrics m
ATsAnalyzed(st, at, a, m) ==
    LET stream_id == at[a].stream_id
    IN  IF stream_id \notin DOMAIN st.stream_health THEN {AEnd(st, at, a)}
        ELSE LET st1 == [st EXCEPT !.stream_health[stream_id].tr101290_metrics =
                            [sync_byte_errors |-> @.sync_byte_errors + m.sync_byte_errors,
                             continuity_errors |-> @.continuity_errors + m.continuity_errors,
                             transport_errors |-> @.transport_errors + m.transport_errors]]
                 at1 == [at EXCEPT ![a].m = m]
             IN  IF m.sync_byte_errors > 0
                 THEN ABroadcast(st1, at1, a, "alarm", "continuity")
                 ELSE AContinue(st1, at1, a, "continuity")

\* the task's send_text returned (ok) or raised; a RuntimeError of the broadcast
\* reaches `except Exception`, which logs it and ends the coroutine
ASent(st, at, a, ok) ==
    LET b == st.broadcasts[a]
    IN  UNION {CASE o.status = "done" ->
                      AContinue([o.st EXCEPT !.broadcasts = Del(@, a)], at, a, at[a].k)
                 [] o.status = "raise" -> {AEnd(o.st, at, a)}
                 [] o.status = "suspended" ->
                      {[st |-> [o.st EXCEPT !.broadcasts[a].bc = o.bc], at |-> at]}
               : o \in BroadcastResume(st, b.stream_id, b.bc, ok)}

\* log_service.write_stream_event returned
ALogged(st, at, a) == {AEnd(st, at, a)}

\* ------------------------------------------------------------------------
\* The environment of the Monitor Engine
\* ------------------------------------------------------------------------
\* StreamConfig: the id and the manifest URL of POST /api/streams
Configs == [id : Streams, manifest_url : {"master.m3u8", "media.m3u8"}]

\* the playlists a server returns with status 200, as _parse_manifest and
\* ad_detector.parse_manifest read them
MediaOne == [variants |-> <<>>, segments |-> <<"s1">>, ads |-> 0]
MediaTwo == [variants |-> <<[uri |-> "v1", bandwidth |-> 800]>>,
             segments |-> <<"s1", "s2", "s1">>, ads |-> 1]
Master == [variants |-> <<[uri |-> "v1", bandwidth |-> 800],
                          [uri |-> "v2", bandwidth |-> 1200],
                          [uri |-> "v3", bandwidth |-> 1200]>>,
           segments |-> <<>>, ads |-> 0]
\* a master playlist with an #EXT-X-STREAM-INF line without BANDWIDTH
MasterNoBandwidth == [variants |-> <<[uri |-> "v1", bandwidth |-> NoBandwidth],
                                     [uri |-> "v2", bandwidth |-> 800]>>,
                      segments |-> <<>>, ads |-> 0]
Manifests == {MediaOne, MediaTwo, Master, MasterNoBandwidth}

\* what _download_segment measured and metrics_calculator derived from it:
\* ttfb in ms, download_speed and actual_bitrate in kbit/s
Downloads == {[ttfb |-> 600, download_speed |-> 8000, actual_bitrate |-> 4000]}

\* the websockets of GET /ws/streams/{stream_id}
Conns == {"c1"}

\* the services after construction: every dictionary empty
InitServices ==
    /\ active_alerts = EmptyMap
    /\ alert_history = <<>>
    /\ alert_counter = 0
    /\ alerts = EmptyMap
    /\ webhook_tasks = <<>>
    /\ last_checks = {}
    /\ now = 0
    /\ active_streams = EmptyMap
    /\ monitoring_tasks = EmptyMap
    /\ seen_segments = EmptyMap
    /\ stream_metrics = EmptyMap
    /\ segment_counter = EmptyMap
    /\ thumbnails_buffer = EmptyMap
    /\ stream_health = EmptyMap
    /\ last_manifest_state = EmptyMap
    /\ metrics_history = EmptyMap
    /\ scte35_events = EmptyMap
    /\ loudness_history = EmptyMap
    /\ tracking = [d \in Tracked |-> {}]
    /\ segment_tasks = EmptyMap
    /\ tasks_spawned = [supervisor |-> 0, segment |-> 0, loudness |-> 0, ts |-> 0]
    /\ thumb_cache = EmptyMap
    /\ thumbnail_registry = EmptyMap
    /\ active_connections = EmptyMap
    /\ accepted = {}
    /\ broadcasts = EmptyMap
    /\ emitted = {}

\* ------------------------------------------------------------------------
\* The MPEG-TS analyzer: TSAnalyzer.analyze_segment, one 188-byte packet
\* per step
\* ------------------------------------------------------------------------
MaxPackets == 3      \* packets in one segment file

PID_PAT == 0
PID_NULL == 8191
SYNC_BYTE == 71          \* 0x47
SCTE35_TABLE_ID == 252   \* 0xFC
PACKET_SIZE == 188
PCR_MAX_JUMP == 54000000 \* 27000000 * 2

\* packet[i]; a packet is given by the bytes that are not stuffing (0xFF)
ByteAt(packet, i) == IF i \in DOMAIN packet THEN packet[i] ELSE 255
\* bool(byte & (1 << k))
Bit(byte, k) == (byte \div (2 ^ k)) % 2 = 1

\* TSMetrics()
NewTSMetrics ==
    [packet_count |-> 0, sync_byte_errors |-> 0, continuity_errors |-> 0,
     transport_errors |-> 0, pid_counts |-> EmptyMap, pcr_count |-> 0,
     pcr_discontinuities |-> 0, pat_errors |-> 0, pmt_errors |-> 0,
     null_packet_count |-> 0, scte35_pids |-> <<>>, scte35_messages |-> 0]

\* TSAnalyzer.__init__ and reset
NewAnalyzer == [cc_trackers |-> EmptyMap, last_pcr |-> EmptyMap, last_pcr_packet |-> EmptyMap]

\* _parse_header
ParseHeader(packet) ==
    [sync |-> ByteAt(packet, 0),
     tei |-> Bit(ByteAt(packet, 1), 7),
     pusi |-> Bit(ByteAt(packet, 1), 6),
     pid |-> (ByteAt(packet, 1) % 32) * 256 + ByteAt(packet, 2),
     has_adaptation |-> Bit(ByteAt(packet, 3), 5),
     has_payload |-> Bit(ByteAt(packet, 3), 4),
     cc |-> ByteAt(packet, 3) % 16]

\* _check_continuity without the allowance for a repeated counter
CheckContinuityNoDuplicate(trackers, pid, cc) ==
    IF pid \notin DOMAIN trackers
    THEN [error |-> FALSE, trackers |-> Put(trackers, pid, [last_cc |-> cc, error_count |-> 0, packet_count |-> 0])]
    ELSE LET tracker == trackers[pid]
             expected_cc == (tracker.last_cc + 1) % 16
         IN  IF cc # expected_cc
             THEN [error |-> TRUE, trackers |-> [trackers EXCEPT ![pid] = [last_cc |-> cc, error_count |-> tracker.error_count + 1, packet_count |-> tracker.packet_count + 1]]]
             ELSE [error |-> FALSE, trackers |-> [trackers EXCEPT ![pid] = [last_cc |-> cc, error_count |-> tracker.error_count, packet_count |-> tracker.packet_count + 1]]]

\* _check_continuity that leaves the tracked counter alone on an error
CheckContinuityKeepsLast(trackers, pid, cc) ==
    IF pid \notin DOMAIN trackers
    THEN [error |-> FALSE, trackers |-> Put(trackers, pid, [last_cc |-> cc, error_count |-> 0, packet_count |-> 0])]
    ELSE LET tracker == trackers[pid]
             expected_cc == (tracker.last_cc + 1) % 16
         IN  IF cc # expected_cc /\ cc # tracker.last_cc
             THEN [error |-> TRUE, trackers |-> [trackers EXCEPT ![pid] = [last_cc |-> tracker.last_cc, error_count |-> tracker.error_count + 1, packet_count |-> tracker.packet_count + 1]]]
             ELSE [error |-> FALSE, trackers |-> [trackers EXCEPT ![pid] = [last_cc |-> cc, error_count |-> tracker.error_count, packet_count |-> tracker.packet_count + 1]]]

\* _check_continuity: the outcome and the trackers after the call
check_continuity(trackers, pid, cc) ==
    IF pid \notin DOMAIN trackers
    THEN [error |-> FALSE, trackers |-> Put(trackers, pid, [last_cc |-> cc, error_count |-> 0, packet_count |-> 0])]
    ELSE LET tracker == trackers[pid]
             expected_cc == (tracker.last_cc + 1) % 16
         IN  IF cc # expected_cc /\ cc # tracker.last_cc
             THEN [error |-> TRUE, trackers |-> [trackers EXCEPT ![pid] = [last_cc |-> cc, error_count |-> tracker.error_count + 1, packet_count |-> tracker.packet_count + 1]]]
             ELSE [error |-> FALSE, trackers |-> [trackers EXCEPT ![pid] = [last_cc |-> cc, error_count |-> tracker.error_count, packet_count |-> tracker.packet_count + 1]]]

\* payload_start = 4 + adaptation_length
PayloadStart(packet) == IF Bit(ByteAt(packet, 3), 5) THEN 4 + ByteAt(packet, 4) + 1 ELSE 4

\* section_start = payload_start + 1 + pointer; only read when payload_start <= 187
SectionStart(packet) == PayloadStart(packet) + 1 + ByteAt(packet, PayloadStart(packet))

\* _validate_pat
validate_pat(packet) ==
    IF ~Bit(ByteAt(packet, 1), 6) THEN TRUE
    ELSE IF PayloadStart(packet) >= 188 THEN FALSE
    ELSE IF SectionStart(packet) >= 188 THEN FALSE
    ELSE ByteAt(packet, SectionStart(packet)) = 0

\* the 33-bit PCR base of bytes 6..10
PcrBase(packet) == ByteAt(packet, 6) * (2 ^ 25) + ByteAt(packet, 7) * (2 ^ 17) + ByteAt(packet, 8) * (2 ^ 9) + ByteAt(packet, 9) * 2 + (ByteAt(packet, 10) \div 128)

\* _check_pcr: the outcome and the analyzer after the call
check_pcr(a, packet, pid, packet_num) ==
    IF \/ ~Bit(ByteAt(packet, 3), 5)
       \/ ByteAt(packet, 4) < 1
       \/ ~Bit(ByteAt(packet, 5), 4)
       \/ ByteAt(packet, 4) < 7
    THEN [result |-> "no_pcr", a |-> a]
    ELSE LET pcr_base == PcrBase(packet)
             is_discontinuity == /\ pid \in DOMAIN a.last_pcr
                                 /\ \/ pcr_base - a.last_pcr[pid] < 0
                                    \/ pcr_base - a.last_pcr[pid] > PCR_MAX_JUMP
         IN  [result |-> IF is_discontinuity THEN "pcr_discontinuity" ELSE "pcr_found",
              a |-> [a EXCEPT !.last_pcr = Put(@, pid, pcr_base),
                              !.last_pcr_packet = Put(@, pid, packet_num)]]

\* _is_scte35_packet
is_scte35_packet(packet, pid) ==
    IF ~Bit(ByteAt(packet, 1), 6) THEN FALSE
    ELSE IF PayloadStart(packet) >= 187 THEN FALSE
    ELSE IF SectionStart(packet) >= 187 THEN FALSE
    ELSE ByteAt(packet, SectionStart(packet)) = SCTE35_TABLE_ID

\* dict.get(pid, 0) + 1
CountPid(pid_counts, pid) == Put(pid_counts, pid, (IF pid \in DOMAIN pid_counts THEN pid_counts[pid] ELSE 0) + 1)

\* the loop body without the `continue` for null packets
AnalyzeChunkNullChecked(a, metrics, chunk, packet_num) ==
    LET m0 == [metrics EXCEPT !.packet_count = @ + 1]
        header == ParseHeader(chunk)
        pid == header.pid
        m1 == [m0 EXCEPT !.transport_errors = IF header.tei THEN @ + 1 ELSE @,
                         !.pid_counts = CountPid(@, pid),
                         !.null_packet_count = IF pid = PID_NULL THEN @ + 1 ELSE @]
        cc == IF header.has_payload THEN check_continuity(a.cc_trackers, pid, header.cc)
              ELSE [error |-> FALSE, trackers |-> a.cc_trackers]
        a2 == [a EXCEPT !.cc_trackers = cc.trackers]
        m2 == [m1 EXCEPT !.continuity_errors = IF cc.error THEN @ + 1 ELSE @]
    IN  IF ByteAt(chunk, 0) # SYNC_BYTE
        THEN [a |-> a, metrics |-> [m0 EXCEPT !.sync_byte_errors = @ + 1]]
        ELSE [a |-> a2, metrics |-> m2]

\* one pass of the while loop of analyze_segment over a full 188-byte chunk
AnalyzeChunk(a, metrics, chunk, packet_num) ==
    LET m0 == [metrics EXCEPT !.packet_count = @ + 1]
        header == ParseHeader(chunk)
        pid == header.pid
        m1 == [m0 EXCEPT !.transport_errors = IF header.tei THEN @ + 1 ELSE @,
                         !.pid_counts = CountPid(@, pid)]
        cc == IF header.has_payload THEN check_continuity(a.cc_trackers, pid, header.cc)
              ELSE [error |-> FALSE, trackers |-> a.cc_trackers]
        a2 == [a EXCEPT !.cc_trackers = cc.trackers]
        m2 == [m1 EXCEPT !.continuity_errors = IF cc.error THEN @ + 1 ELSE @,
                         !.pat_errors = IF pid = PID_PAT /\ ~validate_pat(chunk) THEN @ + 1 ELSE @]
        pcr == IF header.has_adaptation THEN check_pcr(a2, chunk, pid, packet_num)
               ELSE [result |-> "no_pcr", a |-> a2]
        m3 == [m2 EXCEPT !.pcr_count = IF pcr.result # "no_pcr" THEN @ + 1 ELSE @,
                         !.pcr_discontinuities = IF pcr.result = "pcr_discontinuity" THEN @ + 1 ELSE @]
        m4 == IF is_scte35_packet(chunk, pid)
              THEN [m3 EXCEPT !.scte35_pids = IF pid \in Range(@) THEN @ ELSE Append(@, pid),
                              !.scte35_messages = @ + 1]
              ELSE m3
    IN  IF ByteAt(chunk, 0) # SYNC_BYTE
        THEN [a |-> a, metrics |-> [m0 EXCEPT !.sync_byte_errors = @ + 1]]
        ELSE IF pid = PID_NULL
        THEN [a |-> a, metrics |-> [m1 EXCEPT !.null_packet_count = @ + 1]]
        ELSE [a |-> pcr.a, metrics |-> m4]

\* the while loop of analyze_segment from chunk i on
RECURSIVE AnalyzeFrom(_, _, _, _)
AnalyzeFrom(a, metrics, segment, i) ==
    IF i > Len(segment) THEN [a |-> a, metrics |-> metrics]
    ELSE LET r == AnalyzeChunk(a, metrics, segment[i], i)
         IN  AnalyzeFrom(r.a, r.metrics, segment, i + 1)

\* TSAnalyzer.analyze_segment on a file of full chunks: the analyzer after
\* the call and the TSMetrics returned
analyze_segment(a, segment) == AnalyzeFrom(a, NewTSMetrics, segment, 1)

\* ---- the segment files the analyzer is given ----
\* a packet with the given header, adaptation field, pointer field and
\* table_id; al < 0 stands for no adaptation field, pointer < 0 for a payload
\* that starts no section
MakePacket(sync, tei, pusi, pid, has_payload, cc, al, flags, pcr6, pointer, table_id) ==
    LET b1 == (IF tei THEN 128 ELSE 0) + (IF pusi THEN 64 ELSE 0) + (pid \div 256)
        b3 == (IF al >= 0 THEN 32 ELSE 0) + (IF has_payload THEN 16 ELSE 0) + cc
        head == [i \in 0..3 |-> CASE i = 0 -> sync [] i = 1 -> b1 [] i = 2 -> pid % 256 [] OTHER -> b3]
        adaptation == IF al < 0 THEN EmptyMap
                      ELSE IF al = 0 THEN [i \in {4} |-> 0]
                      ELSE [i \in 4..10 |-> CASE i = 4 -> al [] i = 5 -> flags [] i = 6 -> pcr6 [] OTHER -> 0]
        start == IF al < 0 THEN 4 ELSE 5 + al
        section == IF pointer < 0 \/ start > 187 THEN EmptyMap
                   ELSE IF start + 1 + pointer > 187 THEN [i \in {start} |-> pointer]
                   ELSE [i \in {start, start + 1 + pointer} |-> IF i = start + 1 + pointer THEN table_id ELSE pointer]
    IN  Update(Update(head, adaptation), section)

CcInputs == {5, 6, 8, 9, 15, 0}

\* payload packets of an elementary stream, adaptation-only packets, null
\* packets, packets with a damaged sync byte or the error indicator set
ContinuityPackets ==
    {MakePacket(SYNC_BYTE, FALSE, FALSE, 256, TRUE, cc, -1, 0, 0, -1, 0) : cc \in CcInputs}
    \cup {MakePacket(SYNC_BYTE, FALSE, FALSE, 4660, TRUE, cc, -1, 0, 0, -1, 0) : cc \in {5, 6}}
    \cup {MakePacket(SYNC_BYTE, FALSE, FALSE, 256, FALSE, cc, 0, 0, 0, -1, 0) : cc \in {5, 8}}
    \cup {MakePacket(SYNC_BYTE, FALSE, FALSE, PID_NULL, TRUE, 8, -1, 0, 0, -1, 0),
          MakePacket(0, FALSE, FALSE, 256, TRUE, 8, -1, 0, 0, -1, 0),
          MakePacket(SYNC_BYTE, TRUE, FALSE, 256, TRUE, 6, -1, 0, 0, -1, 0)}

\* packets that start a section (or not) with table_id 0xFC or 0x00, behind
\* a pointer field of 0 or one that puts the section at the last byte, with
\* and without an adaptation field, and a PAT
SectionPackets ==
    {MakePacket(SYNC_BYTE, FALSE, pusi, 4660, TRUE, 7, -1, 0, 0, 0, t) : pusi \in BOOLEAN, t \in {SCTE35_TABLE_ID, 0}}
    \cup {MakePacket(SYNC_BYTE, FALSE, TRUE, 4660, TRUE, 7, -1, 0, 0, p, SCTE35_TABLE_ID) : p \in {0, 182}}
    \cup {MakePacket(SYNC_BYTE, FALSE, TRUE, 4660, TRUE, 7, 3, 0, 0, p, SCTE35_TABLE_ID) : p \in {0, 178}}
    \cup {MakePacket(SYNC_BYTE, FALSE, TRUE, 256, TRUE, 7, -1, 0, 0, 0, SCTE35_TABLE_ID),
          MakePacket(SYNC_BYTE, FALSE, TRUE, PID_NULL, TRUE, 7, -1, 0, 0, 0, SCTE35_TABLE_ID),
          MakePacket(0, FALSE, TRUE, 4660, TRUE, 7, -1, 0, 0, 0, SCTE35_TABLE_ID),
          MakePacket(SYNC_BYTE, FALSE, TRUE, 4660, FALSE, 7, 3, 0, 0, 0, SCTE35_TABLE_ID),
          MakePacket(SYNC_BYTE, FALSE, TRUE, PID_PAT, TRUE, 7, -1, 0, 0, 0, 0),
          MakePacket(SYNC_BYTE, FALSE, TRUE, PID_PAT, TRUE, 7, -1, 0, 0, 0, 2)}

\* packets that carry a PCR
PcrPackets == {MakePacket(SYNC_BYTE, FALSE, FALSE, 256, TRUE, 8, 7, 16, pcr6, -1, 0) : pcr6 \in {0, 2}}

PacketInputs == ContinuityPackets \cup SectionPackets \cup PcrPackets

RECURSIVE PacketLists(_)
PacketLists(n) == IF n = 0 THEN {<<>>} ELSE LET shorter == PacketLists(n - 1) IN shorter \cup {Append(s, p) : s \in {x \in shorter : Len(x) = n - 1}, p \in PacketInputs}

\* the analyzer is the process-wide instance: it is fresh, or it has seen
\* PID 0x100 in an earlier segment
AnalyzerInputs == {NewAnalyzer, [NewAnalyzer EXCEPT !.cc_trackers = Put(EmptyMap, 256, [last_cc |-> 5, error_count |-> 0, packet_count |-> 0])]}

\* no segment under analysis
TsIdle ==
    /\ ts_segment = <<>>
    /\ ts_pos = 0
    /\ ts_metrics = NewTSMetrics
    /\ ts_analyzer = NewAnalyzer
    /\ ts_initial = NewAnalyzer

\* no rotation under way
NoRotation == [pc |-> "idle", now |-> 0, file |-> None, content |-> <<>>]

\* LoggerService.__init__ on an empty logs_dir
LogInit ==
    /\ log_files = EmptyMap
    /\ log_clock = 0
    /\ log_counter = 0
    /\ log_writes = EmptyMap
    /\ log_rotation = NoRotation
    /\ log_written = {}
    /\ log_deleted = {}

\* no selection made yet
NotSelected == [called |-> FALSE, raised |-> FALSE, value |-> [uri |-> 0, bandwidth |-> NoBandwidth]]

\* HealthScore.compute() with its defaults: rates and ratios in hundredths
DefaultArgs == [error_rate |-> 0, continuity_errors |-> 0, sync_errors |-> 0, transport_errors |-> 0, ttfb_avg |-> 0, download_ratio |-> 100, manifest_errors |-> 0]
\* HealthScore() with its field defaults
DefaultHealthScore == [score |-> 100, color |-> "green", factors |-> EmptyMap]

\* ------------------------------------------------------------------------
\* MetricsCalculator
\* ------------------------------------------------------------------------
\* Sizes in bytes; durations and download times in milliseconds (the float
\* seconds of the code, counted in thousandths); rates in kbit/s, that is
\* in thousandths of a Mbit/s, the unit round(x, 3) keeps.

\* round(num / den, 3) counted in thousandths, for num >= 0 and den > 0:
\* the nearest thousandth; a quotient exactly half way between two
\* thousandths is a float just above or just below it, so either neighbour
RoundMilli(num, den) ==
    LET q == num \div den
        r == num % den
    IN  IF 2 * r < den THEN {q}
        ELSE IF 2 * r > den THEN {q + 1}
        ELSE {q, q + 1}

\* the same without the guard on the denominator and cutting off instead of rounding
calculate_bitrate_cut(segment_size_bytes, segment_duration_seconds) ==
    IF segment_duration_seconds = 0 THEN {0}
    ELSE IF segment_duration_seconds < 0 THEN {0 - ((segment_size_bytes * 8) \div (0 - segment_duration_seconds))}
    ELSE {(segment_size_bytes * 8) \div segment_duration_seconds}

\* MetricsCalculator.calculate_bitrate
calculate_bitrate(segment_size_bytes, segment_duration_seconds) ==
    IF segment_duration_seconds <= 0 THEN {0}
    ELSE RoundMilli(segment_size_bytes * 8, segment_duration_seconds)

\* MetricsCalculator.calculate_download_speed
calculate_download_speed(segment_size_bytes, download_time_seconds) ==
    IF download_time_seconds <= 0 THEN {0}
    ELSE RoundMilli(segment_size_bytes * 8, download_time_seconds)

\* MetricsCalculator.bytes_to_mb, in thousandths of a megabyte
bytes_to_mb(size_bytes) == RoundMilli(size_bytes * 1000, 1024 * 1024)

\* MetricsCalculator.calculate_all_metrics: download_time / 1000 is the
\* download time in seconds, which is the same count of milliseconds
calculate_all_metrics(segment_info) ==
    LET size_bytes == segment_info.segment_size_bytes
        duration == segment_info.segment_duration
        download_time == segment_info.download_time
    IN  {[actual_bitrate |-> b, download_speed |-> d, segment_size_mb |-> mb,
          segment_size_bytes |-> size_bytes, segment_duration |-> duration,
          download_time |-> download_time, ttfb |-> segment_info.ttfb] :
            b \in calculate_bitrate(size_bytes, duration),
            d \in calculate_download_speed(size_bytes, download_time),
            mb \in bytes_to_mb(size_bytes)}

\* _process_segment, from the probe to the SegmentMetrics object: a probe
\* that failed (None) or found the duration 0 gives the fallback of 6 s
SegmentMetricsOf(data) ==
    LET duration == IF data.probe.returncode # 0 \/ data.probe.duration = 0
                    THEN 6000 ELSE data.probe.duration
        metrics_data == [segment_size_bytes |-> data.size, segment_duration |-> duration,
                         download_time |-> data.download_time, ttfb |-> data.ttfb]
    IN  {[actual_bitrate |-> c.actual_bitrate, download_speed |-> c.download_speed,
          segment_duration |-> duration, ttfb |-> c.ttfb,
          download_time |-> c.download_time,
          segment_size_bytes |-> c.segment_size_bytes,
          segment_size_mb |-> c.segment_size_mb] :
            c \in calculate_all_metrics(metrics_data)}

NoSegmentData == [size |-> 0, download_time |-> 0, ttfb |-> 0, probe |-> [returncode |-> 1, duration |-> 0]]
NoSegmentMetrics == [actual_bitrate |-> 0, download_speed |-> 0, segment_duration |-> 0, ttfb |-> 0, download_time |-> 0, segment_size_bytes |-> 0, segment_size_mb |-> 0]

\* no segment measured
MetricsIdle ==
    /\ segment_data = NoSegmentData
    /\ calculated = [called |-> FALSE, metrics |-> NoSegmentMetrics]

\* no segment given to the process-wide analyzer
SharedIdle == ts_calls = <<>>

\* LoggerService.__init__: no lock created, no append under way
LockIdle ==
    /\ file_locks = EmptyMap
    /\ appends = EmptyMap

\* no file given to analyze_segment
FileIdle ==
    /\ ts_tail = 0
    /\ ts_returned = FALSE

UnitIdle == MetricsIdle /\ SharedIdle /\ LockIdle /\ FileIdle

\* no call of HealthScore.compute made
ComputeIdle ==
    /\ compute_args = DefaultArgs
    /\ computed = [called |-> FALSE, value |-> DefaultHealthScore]

\* the webhook service after construction, without a webhooks file
WebhookIdle ==
    /\ session = "none"
    /\ webhooks = EmptyMap
    /\ webhook_ops = 0
    /\ send_events = <<>>

\* no analysis task created
AnalysisIdle ==
    /\ analysis_tasks = EmptyMap
    /\ sent = {}

\* no master playlist parsed
VariantIdle ==
    /\ variant_streams = <<>>
    /\ best_variant = NotSelected

Init ==
    /\ InitServices
    /\ VariantIdle
    /\ LogInit
    /\ TsIdle
    /\ ComputeIdle
    /\ AnalysisIdle
    /\ WebhookIdle
    /\ UnitIdle

\* the step stays within the bounds on the counters
WithinBounds(st) ==
    /\ st.tasks_spawned.supervisor <= MaxAdds
    /\ st.tasks_spawned.segment <= MaxSegTasks
    /\ st.alert_counter <= MaxAlerts

\* POST /api/streams -> stream_monitor.add_stream
AddStream(stream_config) ==
    /\ stream_config.id \in DOMAIN active_streams \/ tasks_spawned.supervisor < MaxAdds
    /\ SetState(add_stream(State, stream_config))

\* DELETE /api/streams/{id} -> stream_monitor.remove_stream
RemoveStream(stream_id) ==
    SetState(remove_stream(State, stream_id))

\* the supervisor's _fetch_manifest ended with a non-200 status or an exception
SupFetchFail(stream_id) ==
    /\ stream_id \in DOMAIN monitoring_tasks
    /\ monitoring_tasks[stream_id].pc = "fetch"
    /\ \E r \in SupFetchedNone(State, stream_id) : SetState(r)

\* the supervisor's _fetch_manifest returned a playlist
SupFetchOk(stream_id, m) ==
    /\ stream_id \in DOMAIN monitoring_tasks
    /\ monitoring_tasks[stream_id].pc = "fetch"
    /\ \E r \in SupFetched(State, stream_id, m) : WithinBounds(r) /\ SetState(r)

\* a send_text awaited by the supervisor's broadcast returned or raised
SupSendDone(stream_id, ok) ==
    /\ stream_id \in DOMAIN monitoring_tasks
    /\ monitoring_tasks[stream_id].pc = "send"
    /\ \E r \in SupSent(State, stream_id, ok) : WithinBounds(r) /\ SetState(r)

\* asyncio.sleep(settings.MANIFEST_POLL_INTERVAL) returned: the next iteration
SupWake(stream_id) ==
    /\ stream_id \in DOMAIN monitoring_tasks
    /\ monitoring_tasks[stream_id].pc \in {"sleep", "err_sleep"}
    /\ SetState(SupAt(State, stream_id, "fetch"))

SegDownloadFail(t) ==
    /\ t \in DOMAIN segment_tasks
    /\ segment_tasks[t].pc = "download"
    /\ \E r \in SegDownloadedNone(State, t) : SetState(r)

SegDownloadOk(t, d) ==
    /\ t \in DOMAIN segment_tasks
    /\ segment_tasks[t].pc = "download"
    /\ \E r \in SegDownloaded(State, t, d) : SetState(r)

SegProbeDone(t) ==
    /\ t \in DOMAIN segment_tasks
    /\ segment_tasks[t].pc = "probe"
    /\ \E r \in SegProbed(State, t) : WithinBounds(r) /\ SetState(r)

SegThumbDone(t) ==
    /\ t \in DOMAIN segment_tasks
    /\ segment_tasks[t].pc = "thumb"
    /\ \E r \in SegThumbnailed(State, t) : SetState(r)

SegSendDone(t, ok) ==
    /\ t \in DOMAIN segment_tasks
    /\ segment_tasks[t].pc = "send"
    /\ \E r \in SegSent(State, t, ok) : SetState(r)

SegLogDone(t) ==
    /\ t \in DOMAIN segment_tasks
    /\ segment_tasks[t].pc \in {"log", "sprite_log"}
    /\ \E r \in SegLogged(State, t) : SetState(r)

\* websocket_endpoint: ws_manager.connect
Connect(websocket, stream_id) ==
    /\ websocket \notin accepted
    /\ SetState(connect(State, websocket, stream_id))

\* websocket_endpoint: WebSocketDisconnect -> ws_manager.disconnect
\* (also for a websocket that a broadcast evicted before)
Disconnect(websocket, stream_id) ==
    /\ websocket \in accepted
    /\ SetState(disconnect(State, websocket, stream_id))

TaskIds == 1..(MaxSegTasks + 1)

Next ==
    \/ \E stream_config \in Configs : AddStream(stream_config)
    \/ \E stream_id \in Streams : RemoveStream(stream_id)
    \/ \E stream_id \in Streams : SupFetchFail(stream_id)
    \/ \E stream_id \in Streams, m \in Manifests : SupFetchOk(stream_id, m)
    \/ \E stream_id \in Streams, ok \in BOOLEAN : SupSendDone(stream_id, ok)
    \/ \E stream_id \in Streams : SupWake(stream_id)
    \/ \E t \in TaskIds : SegDownloadFail(t)
    \/ \E t \in TaskIds, d \in Downloads : SegDownloadOk(t, d)
    \/ \E t \in TaskIds : SegProbeDone(t)
    \/ \E t \in TaskIds : SegThumbDone(t)
    \/ \E t \in TaskIds, ok \in BOOLEAN : SegSendDone(t, ok)
    \/ \E t \in TaskIds : SegLogDone(t)
    \/ \E websocket \in Conns, stream_id \in Streams : Connect(websocket, stream_id)
    \/ \E websocket \in Conns, stream_id \in Streams : Disconnect(websocket, stream_id)

Spec == Init /\ [][Next]_vars

\* ------------------------------------------------------------------------
\* The alert engine on its own: its public operations called in any order
\* ------------------------------------------------------------------------
ScoreInputs == {35, 45, 55, 70}
TypeInputs == {"high_error_rate"}
SeverityInputs == {"warning", "error"}
MetadataInputs == {EmptyMap, [error_rate |-> 250]}

\* the other arguments of check_health_thresholds: every value on the resolve
\* side next to its threshold, or one of them on the threshold
Healthy == [error_rate |-> 99, continuity_errors |-> 4, ttfb_avg |-> 499, download_ratio |-> 81]
MetricInputs ==
    {Healthy,
     [Healthy EXCEPT !.error_rate = 100],
     [Healthy EXCEPT !.continuity_errors = 5],
     [Healthy EXCEPT !.ttfb_avg = 500],
     [Healthy EXCEPT !.download_ratio = 80]}

RaiseAlert(stream_id, alert_type, severity, metadata) ==
    LET r == raise_alert(State, stream_id, alert_type, severity,
                         [text |-> "raised", value |-> 0], metadata, now).st
    IN  r.alert_counter <= MaxAlerts /\ SetState(r)

ResolveAlert(stream_id, alert_type) ==
    SetState(resolve_alert(State, stream_id, alert_type, now).st)

\* POST /api/streams/{stream_id}/alerts/{alert_id}/acknowledge
AcknowledgeAlert(stream_id, alert_id) ==
    LET r == acknowledge_alert(State, stream_id, alert_id)
    IN  SetState(Emit(r.st, Ev("return", stream_id, IF r.ret THEN "True" ELSE "False",
                               "acknowledge_alert")))

CheckHealthThresholds(stream_id, health_score, metrics) ==
    LET r == check_health_thresholds(State, stream_id, health_score, metrics.error_rate,
                                     metrics.continuity_errors, metrics.ttfb_avg,
                                     metrics.download_ratio, now)
    IN  r.alert_counter <= MaxAlerts /\ SetState(r)

\* remove_stream -> alert_service.cleanup_stream
CleanupStream(stream_id) ==
    SetState(cleanup_stream(State, stream_id))

MaxAgeInputs == {0, 1}

CleanupOldAlerts(max_age_hours) ==
    SetState(cleanup_old_alerts(State, max_age_hours, now))

\* an hour passes
Tick ==
    /\ now < MaxTime
    /\ SetState([State EXCEPT !.now = now + 1])

AlertNext ==
    \/ \E stream_id \in Streams, alert_type \in TypeInputs, severity \in SeverityInputs,
          metadata \in MetadataInputs :
          RaiseAlert(stream_id, alert_type, severity, metadata)
    \/ \E stream_id \in Streams, alert_type \in AlertType : ResolveAlert(stream_id, alert_type)
    \/ \E stream_id \in Streams, alert_id \in 1..MaxAlerts : AcknowledgeAlert(stream_id, alert_id)
    \/ \E stream_id \in Streams, health_score \in ScoreInputs :
          CheckHealthThresholds(stream_id, health_score, Healthy)
    \/ \E stream_id \in Streams : CleanupStream(stream_id)
    \/ \E max_age_hours \in MaxAgeInputs : CleanupOldAlerts(max_age_hours)
    \/ Tick

SpecAlert == Init /\ [][AlertNext]_vars

\* The alert engine as the monitor drives it: _update_health_score calls
\* check_health_thresholds, remove_stream calls cleanup_stream, the API acknowledges.
HealthNext ==
    \/ \E stream_id \in Streams, health_score \in ScoreInputs, metrics \in MetricInputs :
          CheckHealthThresholds(stream_id, health_score, metrics)
    \/ \E stream_id \in Streams : CleanupStream(stream_id)
    \/ \E stream_id \in Streams, alert_id \in 1..MaxAlerts : AcknowledgeAlert(stream_id, alert_id)
    \/ Tick

SpecHealth == Init /\ [][HealthNext]_vars

\* ------------------------------------------------------------------------
\* The variant selection on its own, over the master playlists of up to
\* MaxVariants variants
\* ------------------------------------------------------------------------
BandwidthInputs == {NoBandwidth, 800, 1200, 2500}
RECURSIVE VariantLists(_)
VariantLists(n) ==
    IF n = 0 THEN {<<>>}
    ELSE LET shorter == VariantLists(n - 1)
         IN  shorter \cup {Append(s, [uri |-> Len(s) + 1, bandwidth |-> b]) :
                             s \in {x \in shorter : Len(x) = n - 1}, b \in BandwidthInputs}

VariantInit ==
    /\ InitServices
    /\ variant_streams \in VariantLists(MaxVariants) \ {<<>>}
    /\ best_variant = NotSelected
    /\ LogInit
    /\ TsIdle
    /\ ComputeIdle
    /\ AnalysisIdle
    /\ WebhookIdle
    /\ UnitIdle

\* best_variant = max(variant_streams, key=lambda x: x.bandwidth)
SelectBestVariant ==
    /\ ~best_variant.called
    /\ best_variant' = LET sel == SelectVariant(variant_streams)
                       IN  IF sel.ok
                           THEN [called |-> TRUE, raised |-> FALSE,
                                 value |-> variant_streams[sel.index]]
                           ELSE [NotSelected EXCEPT !.called = TRUE, !.raised = TRUE]
    /\ UNCHANGED <<variant_streams, alertVars, registryVars, taskVars, thumbVars, busVars,
                   emitted, logVars, tsVars, computeVars, analysisVars, webhookVars, unitVars>>

VariantNext == SelectBestVariant

SpecVariant == VariantInit /\ [][VariantNext]_vars

\* ------------------------------------------------------------------------
\* The event bus alone: connect, disconnect and broadcast of WebSocketManager
\* called by concurrent coroutines, with the websockets of several clients
\* ------------------------------------------------------------------------
BusConns == {"c1", "c2", "c3"}

\* a coroutine calls ws_manager.broadcast(stream_id, message) and runs up to its
\* first send_text
BusBroadcast(b, stream_id) ==
    /\ b \notin DOMAIN broadcasts
    /\ \E o \in BroadcastStart(State, stream_id, "message") :
          IF o.status = "done"
          THEN SetState(Emit(o.st, Ev("return", stream_id, "None", "broadcast")))
          ELSE SetState([o.st EXCEPT !.broadcasts =
                            Put(@, b, [stream_id |-> stream_id, bc |-> o.bc])])

\* logger.error("Error sending to WebSocket") when the send_text raised
LogSendError(st, stream_id, websocket, ok) ==
    IF ok THEN st ELSE Emit(st, Ev("logger", stream_id, "Error sending to WebSocket", websocket))

\* a send_text awaited by the broadcast returned (ok) or raised (~ok)
BusSendDone(b, ok) ==
    /\ b \in DOMAIN broadcasts
    /\ \E o \in BroadcastResume(LogSendError(State, broadcasts[b].stream_id,
                                             broadcasts[b].bc.cur, ok),
                                broadcasts[b].stream_id, broadcasts[b].bc, ok) :
          CASE o.status = "suspended" -> SetState([o.st EXCEPT !.broadcasts[b].bc = o.bc])
            [] o.status = "done" ->
                  SetState(Emit([o.st EXCEPT !.broadcasts = Del(@, b)],
                                Ev("return", broadcasts[b].stream_id, "None", "broadcast")))
            [] o.status = "raise" ->
                  SetState(Emit([o.st EXCEPT !.broadcasts = Del(@, b)],
                                Ev("raise", broadcasts[b].stream_id, "RuntimeError", "broadcast")))

BroadcastIds == 1..MaxBroadcasts

BusNext ==
    \/ \E websocket \in BusConns, stream_id \in Streams : Connect(websocket, stream_id)
    \/ \E websocket \in BusConns, stream_id \in Streams : Disconnect(websocket, stream_id)
    \/ \E b \in BroadcastIds, stream_id \in Streams : BusBroadcast(b, stream_id)
    \/ \E b \in BroadcastIds, ok \in BOOLEAN : BusSendDone(b, ok)

SpecBus == Init /\ [][BusNext]_vars

\* ------------------------------------------------------------------------
\* The log store: LoggerService, its writers, its readers and the hourly
\* rotation worker
\* ------------------------------------------------------------------------
MaxLogTime == 5      \* the clock stops after this many half days
MaxLogWrites == 2    \* write_event calls made

\* settings.LOG_COMPRESS_DAYS and settings.LOG_DELETE_DAYS
LOG_COMPRESS_DAYS == 1
LOG_DELETE_DAYS == 2
\* read_events(..., limit = 1000)
DEFAULT_LIMIT == 1000

\* timedelta(days=n); the clock counts half days
Days(n) == 2 * n
\* date.strftime('%Y-%m-%d'): the day a time falls on
DateOf(t) == t \div 2
\* datetime.strptime(date_str, '%Y-%m-%d').replace(tzinfo=self._local_tz)
MidnightOf(day) == 2 * day

\* logs_dir / [stream_id /] YYYY-MM-DD.log; dir None is logs_dir itself
LogFilename(date, stream_id) == [dir |-> stream_id, day |-> DateOf(date), gz |-> FALSE]
\* log_file.with_suffix('.log.gz')
GzFile(log_file) == [log_file EXCEPT !.gz = TRUE]

\* open(log_file, mode='a') and write(log_line)
AppendLine(files, log_file, log_line) == IF log_file \in DOMAIN files THEN [files EXCEPT ![log_file] = Append(@, log_line)] ELSE Put(files, log_file, <<log_line>>)

\* The ways the log store is called: write_stream_event(stream_id, ...)
\* passes the stream ID both in the event and as the argument; the monitor's
\* write_event({..., "stream_id": id}) passes it in the event only.
LogCalls ==
    {[event_type |-> "stream_added", stream_id |-> s, arg |-> s] : s \in Streams}
    \cup {[event_type |-> "segment_downloaded", stream_id |-> s, arg |-> None] : s \in Streams}
    \cup {[event_type |-> "loudness_analyzed", stream_id |-> None, arg |-> s] : s \in Streams}
    \cup {[event_type |-> "rotation", stream_id |-> None, arg |-> None]}

\* write_event up to its first await: the event completed with timestamp
\* and stream_id, and the file chosen by the stream_id argument
write_event(call, id, t) ==
    LET event == [id |-> id, event_type |-> call.event_type,
                  stream_id |-> IF call.arg # None /\ call.stream_id = None
                                THEN call.arg ELSE call.stream_id,
                  timestamp |-> t]
    IN  [event |-> event, arg |-> call.arg, now |-> t, pc |-> "file", failed |-> FALSE]

\* the file the pending append of a write_event call goes to
PendingFile(w) == IF w.pc = "file" THEN LogFilename(w.now, w.arg) ELSE LogFilename(w.now, None)

\* _matches_filter
MatchesFilter(event, stream_id, event_type) ==
    /\ stream_id # None => event.stream_id = stream_id
    /\ event_type # None => event.event_type = event_type

\* the first n elements of a list
Take(s, n) == IF n <= 0 THEN <<>> ELSE SubSeq(s, 1, Min(n, Len(s)))

\* _read_log_file and _read_gz_log_file, when the file exists
ReadLogFile(files, log_file, stream_id, event_type, limit) ==
    IF log_file \notin DOMAIN files THEN <<>>
    ELSE Take(SeqFilter(files[log_file], {e \in Range(files[log_file]) : MatchesFilter(e, stream_id, event_type)}), limit)

RECURSIVE ReadDays(_, _, _, _, _, _, _)
\* the while loop of read_events
ReadDays(files, current, end_date, stream_id, event_type, limit, events) ==
    IF current > end_date THEN events
    ELSE LET log_file == LogFilename(current, stream_id)
             plain == events \o ReadLogFile(files, log_file, stream_id, event_type, limit - Len(events))
             both == plain \o ReadLogFile(files, GzFile(log_file), stream_id, event_type, limit - Len(plain))
         IN  IF Len(both) >= limit THEN both
             ELSE ReadDays(files, current + Days(1), end_date, stream_id, event_type, limit, both)

read_events(files, start_date, end_date, stream_id, event_type, limit) == Take(ReadDays(files, start_date, end_date, stream_id, event_type, limit, <<>>), limit)

\* _try_compress_file decides to compress log_file
Compressible(files, log_file, rotation_now) ==
    /\ ~log_file.gz
    /\ MidnightOf(log_file.day) < rotation_now - Days(LOG_COMPRESS_DAYS)
    /\ GzFile(log_file) \notin DOMAIN files

\* _try_delete_file decides to delete log_file
Deletable(log_file, rotation_now) == MidnightOf(log_file.day) < rotation_now - Days(LOG_DELETE_DAYS)

nonLogVars == <<alertVars, registryVars, taskVars, thumbVars, busVars, emitted, variantVars, tsVars, computeVars, analysisVars, webhookVars, unitVars>>

\* a caller awaits write_event or spawns it as a task
LogWriteEvent(call) ==
    /\ log_counter < MaxLogWrites
    /\ log_counter' = log_counter + 1
    /\ log_writes' = Put(log_writes, log_counter + 1, write_event(call, log_counter + 1, log_clock))
    /\ UNCHANGED <<log_files, log_clock, log_rotation, log_written, log_deleted, nonLogVars>>

\* the pending append of a write_event call is made, or raises and is logged;
\* a call with the stream_id argument goes on to _write_to_global_log
LogAppendDone(id, ok) ==
    /\ id \in DOMAIN log_writes
    /\ LET w == log_writes[id]
           log_file == PendingFile(w)
       IN  /\ log_files' = IF ok THEN AppendLine(log_files, log_file, w.event) ELSE log_files
           /\ log_written' = IF ok THEN log_written \cup {[event |-> w.event, dir |-> log_file.dir, time |-> w.now]} ELSE log_written
           /\ log_writes' = IF w.pc = "file" /\ w.arg # None
                            THEN [log_writes EXCEPT ![id].pc = "global", ![id].failed = ~ok]
                            ELSE Del(log_writes, id)
    /\ UNCHANGED <<log_clock, log_counter, log_rotation, log_deleted, nonLogVars>>

\* log_rotation_worker wakes up and calls rotate_logs
RotateLogs ==
    /\ log_rotation.pc = "idle"
    /\ log_rotation' = [NoRotation EXCEPT !.pc = "compress", !.now = log_clock]
    /\ UNCHANGED <<log_files, log_clock, log_counter, log_writes, log_written, log_deleted, nonLogVars>>

\* _try_compress_file reads the content of a file that is old enough
CompressRead(log_file) ==
    /\ log_rotation.pc = "compress"
    /\ log_file \in DOMAIN log_files
    /\ Compressible(log_files, log_file, log_rotation.now)
    /\ log_rotation' = [log_rotation EXCEPT !.pc = "reading", !.file = log_file, !.content = log_files[log_file]]
    /\ UNCHANGED <<log_files, log_clock, log_counter, log_writes, log_written, log_deleted, nonLogVars>>

\* _try_compress_file writes the content it read to the .log.gz file and
\* unlinks the .log file
CompressDone ==
    /\ log_rotation.pc = "reading"
    /\ log_files' = Put(Del(log_files, log_rotation.file), GzFile(log_rotation.file), log_rotation.content)
    /\ log_rotation' = [log_rotation EXCEPT !.pc = "compress", !.file = None, !.content = <<>>]
    /\ UNCHANGED <<log_clock, log_counter, log_writes, log_written, log_deleted, nonLogVars>>

\* _delete_old_logs, which has no await: every file that is old enough goes
DeleteOldLogs ==
    /\ log_rotation.pc = "compress"
    /\ \A f \in DOMAIN log_files : ~Compressible(log_files, f, log_rotation.now)
    /\ LET old == {f \in DOMAIN log_files : Deletable(f, log_rotation.now)}
       IN  /\ log_files' = [f \in DOMAIN log_files \ old |-> log_files[f]]
           /\ log_deleted' = log_deleted \cup old
    /\ log_rotation' = NoRotation
    /\ UNCHANGED <<log_clock, log_counter, log_writes, log_written, nonLogVars>>

\* time passes
LogTick ==
    /\ log_clock < MaxLogTime
    /\ log_clock' = log_clock + 1
    /\ UNCHANGED <<log_files, log_counter, log_writes, log_rotation, log_written, log_deleted, nonLogVars>>

LogFiles == {[dir |-> d, day |-> n, gz |-> FALSE] : d \in Streams \cup {None}, n \in 0..DateOf(MaxLogTime)}

LogNext ==
    \/ \E call \in LogCalls : LogWriteEvent(call)
    \/ \E id \in 1..MaxLogWrites, ok \in BOOLEAN : LogAppendDone(id, ok)
    \/ RotateLogs
    \/ \E log_file \in LogFiles : CompressRead(log_file)
    \/ CompressDone
    \/ DeleteOldLogs
    \/ LogTick

SpecLog == Init /\ [][LogNext]_vars

\* ------------------------------------------------------------------------
\* The MPEG-TS analyzer on its own: one segment file, read packet by packet
\* ------------------------------------------------------------------------
TsInit ==
    /\ InitServices
    /\ VariantIdle
    /\ LogInit
    /\ ComputeIdle
    /\ AnalysisIdle
    /\ WebhookIdle
    /\ UnitIdle
    /\ ts_segment \in PacketLists(MaxPackets)
    /\ ts_pos = 0
    /\ ts_metrics = NewTSMetrics
    /\ ts_analyzer \in AnalyzerInputs
    /\ ts_initial = ts_analyzer

nonTsVars == <<alertVars, registryVars, taskVars, thumbVars, busVars, emitted, variantVars, logVars, computeVars, analysisVars, webhookVars, unitVars>>

\* chunk = f.read(188) and the body of the loop
AnalyzePacket ==
    /\ ts_pos < Len(ts_segment)
    /\ LET r == AnalyzeChunk(ts_analyzer, ts_metrics, ts_segment[ts_pos + 1], ts_pos + 1)
       IN  /\ ts_analyzer' = r.a
           /\ ts_metrics' = r.metrics
    /\ ts_pos' = ts_pos + 1
    /\ UNCHANGED <<ts_segment, ts_initial, nonTsVars>>

TsNext == AnalyzePacket

SpecTs == TsInit /\ [][TsNext]_vars

\* ------------------------------------------------------------------------
\* HealthScore.compute on its own
\* ------------------------------------------------------------------------
\* error rates in hundredths of a percent, TTFB in ms, download ratios in
\* hundredths: below, at and above every step and cap of the penalties
ComputeInputs ==
    [error_rate : {0, 5, 10, 200, 299, 300, 1000},
     continuity_errors : {0, 1, 10, 11},
     sync_errors : {0, 1, 5, 6},
     transport_errors : {0, 5},
     ttfb_avg : {0, 200, 500, 599, 600, 1500, 1600},
     download_ratio : {0, 50, 90, 99, 100, 150},
     manifest_errors : {0, 1, 2, 3}]

ComputeInit ==
    /\ InitServices
    /\ VariantIdle
    /\ LogInit
    /\ TsIdle
    /\ AnalysisIdle
    /\ WebhookIdle
    /\ UnitIdle
    /\ compute_args \in ComputeInputs
    /\ computed = [called |-> FALSE, value |-> DefaultHealthScore]

\* HealthScore.compute(**compute_args)
Compute ==
    /\ ~computed.called
    /\ computed' = [called |-> TRUE,
                    value |-> HealthScoreCompute(compute_args.error_rate, compute_args.continuity_errors, compute_args.sync_errors, compute_args.transport_errors, compute_args.ttfb_avg, compute_args.download_ratio, compute_args.manifest_errors)]
    /\ UNCHANGED <<compute_args, alertVars, registryVars, taskVars, thumbVars, busVars, emitted, variantVars, logVars, tsVars, analysisVars, webhookVars, unitVars>>

ComputeNext == Compute

SpecCompute == ComputeInit /\ [][ComputeNext]_vars

\* ------------------------------------------------------------------------
\* The bounded buffers of the Monitor Engine: one stream without subscribers,
\* whose playlist lists one new segment at each poll.  The runs explored are
\* those in which the segments are processed one after the other, but for the
\* segments of SlowSegments, whose thumbnail extraction (ffmpeg) may outlast
\* any number of polls: a poll waits until the analysis tasks have ended and
\* every segment task in flight is a slow one suspended in
\* generate_thumbnail_for_segment.
\* ------------------------------------------------------------------------
MaxSegments == 52
SlowSegments == {1}

BufferConfig == [id |-> "a", manifest_url |-> "media.m3u8"]
\* the playlist of the n-th poll
MediaOf(n) == [variants |-> <<>>, segments |-> <<n>>, ads |-> 0]
\* the TSMetrics of a segment that carries one splice_info_section
SpliceResult == [NoTsResult EXCEPT !.scte35_messages = 1]

\* the event types whose sends are recorded
Recorded == {"segment_downloaded", "health_update"}

\* the recorded send_text calls of a step and, for the recorded event it
\* published, the members of the subscriber set the broadcast iterates
SendsOf(st) ==
    {e \in st.emitted : e.ch = "send" /\ e.type \in Recorded}
    \cup UNION {{Ev("subscribed", e.stream_id, e.type, c)
                 : c \in IF e.stream_id \in DOMAIN st.active_connections
                         THEN st.active_connections[e.stream_id] ELSE {}}
                : e \in {x \in st.emitted : x.ch = "publish" /\ x.type \in Recorded}}

\* The variables after a step that left the services in p.st and the analysis
\* tasks in p.at.
Advance(p) ==
    /\ SetProgram(p.st)
    /\ analysis_tasks' = p.at
    /\ sent' = sent \cup SendsOf(p.st)
    /\ UNCHANGED <<variantVars, logVars, tsVars, computeVars, webhookVars, unitVars>>

\* a step of segment task t that ends in one of results
SegStep(t, results) ==
    \E r \in results :
        Advance([st |-> r, at |-> CreateAnalysisTasks(analysis_tasks, State, r, t)])

\* no analysis task in flight
Quiet == DOMAIN analysis_tasks = {}

BufAddStream ==
    /\ DOMAIN active_streams = {}
    /\ tasks_spawned.supervisor = 0
    /\ Advance([st |-> add_stream(State, BufferConfig), at |-> analysis_tasks])

BufFetch(stream_id) ==
    /\ stream_id \in DOMAIN monitoring_tasks
    /\ monitoring_tasks[stream_id].pc = "fetch"
    /\ tasks_spawned.segment < MaxSegments
    /\ \A t \in DOMAIN segment_tasks :
          segment_tasks[t].pc = "thumb" /\ segment_tasks[t].url \in SlowSegments
    /\ Quiet
    /\ \E r \in SupFetched(State, stream_id, MediaOf(tasks_spawned.segment + 1)) :
          Advance([st |-> r, at |-> analysis_tasks])

BufWake(stream_id) ==
    /\ stream_id \in DOMAIN monitoring_tasks
    /\ monitoring_tasks[stream_id].pc \in {"sleep", "err_sleep"}
    /\ Advance([st |-> SupAt(State, stream_id, "fetch"), at |-> analysis_tasks])

\* _download_segment returned data
DownloadOk(t, d) ==
    /\ t \in DOMAIN segment_tasks
    /\ segment_tasks[t].pc = "download"
    /\ SegStep(t, SegDownloaded(State, t, d))

\* _probe_duration returned
ProbeDone(t) ==
    /\ t \in DOMAIN segment_tasks
    /\ segment_tasks[t].pc = "probe"
    /\ SegStep(t, SegProbed(State, t))

\* generate_thumbnail_for_segment returned
ThumbDone(t) ==
    /\ t \in DOMAIN segment_tasks
    /\ segment_tasks[t].pc = "thumb"
    /\ SegStep(t, SegThumbnailed(State, t))

\* a send_text awaited by the segment task's broadcast returned or raised
SendDone(t, ok) ==
    /\ t \in DOMAIN segment_tasks
    /\ segment_tasks[t].pc = "send"
    /\ SegStep(t, SegSent(State, t, ok))

\* log_service.write_event returned
LogDone(t) ==
    /\ t \in DOMAIN segment_tasks
    /\ segment_tasks[t].pc \in {"log", "sprite_log"}
    /\ SegStep(t, SegLogged(State, t))

BufDownload(t, d) == Quiet /\ DownloadOk(t, d)
BufProbe(t) == Quiet /\ ProbeDone(t)
BufThumb(t) == Quiet /\ ThumbDone(t)
BufLog(t) == Quiet /\ LogDone(t)

\* loudness_analyzer.analyze_segment returned
LoudnessDone(a) ==
    /\ a \in DOMAIN analysis_tasks
    /\ analysis_tasks[a].kind = "loudness"
    /\ analysis_tasks[a].pc = "analyze"
    /\ \E p \in ALoudnessAnalyzed(State, analysis_tasks, a) : Advance(p)

\* the thread of ts_analyzer.analyze_segment returned metrics m
TsDone(a, m) ==
    /\ a \in DOMAIN analysis_tasks
    /\ analysis_tasks[a].kind = "ts"
    /\ analysis_tasks[a].pc = "analyze"
    /\ \E p \in ATsAnalyzed(State, analysis_tasks, a, m) : Advance(p)

\* a send_text awaited by an analysis task's broadcast returned or raised
AnalysisSendDone(a, ok) ==
    /\ a \in DOMAIN analysis_tasks
    /\ analysis_tasks[a].pc = "send"
    /\ \E p \in ASent(State, analysis_tasks, a, ok) : Advance(p)

\* log_service.write_stream_event returned
AnalysisLogDone(a) ==
    /\ a \in DOMAIN analysis_tasks
    /\ analysis_tasks[a].pc = "log"
    /\ \E p \in ALogged(State, analysis_tasks, a) : Advance(p)

BufTaskIds == 1..MaxSegments
BufAnalysisIds == 1..(2 * MaxSegments)

BufNext ==
    \/ BufAddStream
    \/ \E stream_id \in Streams : BufFetch(stream_id)
    \/ \E stream_id \in Streams : BufWake(stream_id)
    \/ \E t \in BufTaskIds, d \in Downloads : BufDownload(t, d)
    \/ \E t \in BufTaskIds : BufProbe(t)
    \/ \E t \in BufTaskIds : BufThumb(t)
    \/ \E t \in BufTaskIds : BufLog(t)
    \/ \E a \in BufAnalysisIds : LoudnessDone(a)
    \/ \E a \in BufAnalysisIds : TsDone(a, SpliceResult)
    \/ \E a \in BufAnalysisIds : AnalysisLogDone(a)

SpecBuffers == Init /\ [][BufNext]_vars

\* ------------------------------------------------------------------------
\* The webhook service: services/webhook_service.py with the requests of
\* api/webhooks.py and the application's lifespan
\* ------------------------------------------------------------------------
MaxCalls == 2
MaxWebhookOps == 3

WebhookIds == {"w1", "w2"}
EventTypes == {"alert_raised", "stream_down"}
\* events: Optional[List[str]] = None, left out of a request
NoList == <<None>>
EventLists == {<<>>, <<"alert_raised">>}
\* the outcomes of session.post: a status below 400, a status from 400,
\* asyncio.TimeoutError, another exception
PostOutcomes == {"delivered", "status", "timeout", "error"}

\* WebhookConfig.__post_init__
WebhookConfig(id, enabled, events) ==
    [id |-> id, enabled |-> enabled,
     events |-> IF events = NoList
                THEN <<"alert_raised", "alert_resolved", "stream_down", "stream_up">>
                ELSE events]

\* a loop test that passes only the webhooks whose list names the event type
PassesListedOnly(webhook, event_type) ==
    /\ webhook.enabled
    /\ event_type \in Range(webhook.events)

\* the tests of the loop of send_event: neither `continue` is taken
Passes(webhook, event_type) ==
    /\ webhook.enabled
    /\ ~(webhook.events # <<>> /\ event_type \notin Range(webhook.events))

\* WebhookService.send_event up to its gather: the coroutines of tasks are
\* created; without a session nothing is
send_event(ses, whs, event_type) ==
    LET tasks == IF ses = "none" THEN {}
                 ELSE {w \in DOMAIN whs : Passes(whs[w], event_type)}
    IN  [event_type |-> event_type, tasks |-> tasks, pending |-> tasks, posting |-> {},
         posts |-> [w \in WebhookIds |-> 0], failed |-> {}]

\* WebhookService._send_to_webhook up to its await: session.post raises
\* RuntimeError on a closed session, which `except Exception` logs
send_to_webhook(ses, call, w) ==
    IF ses = "closed"
    THEN [call EXCEPT !.pending = @ \ {w}, !.failed = @ \cup {w}]
    ELSE [call EXCEPT !.pending = @ \ {w}, !.posting = @ \cup {w}, !.posts[w] = @ + 1]

\* the POST ended: every outcome is logged, none is retried
PostEnded(call, w, outcome) ==
    [call EXCEPT !.posting = @ \ {w},
                 !.failed = IF outcome = "delivered" THEN @ ELSE @ \cup {w}]

\* gather returned, or send_event returned before it
GatherReturned(call) == call.pending = {} /\ call.posting = {}

nonWebhookVars == <<alertVars, registryVars, taskVars, thumbVars, busVars, emitted, variantVars, logVars, tsVars, computeVars, analysisVars, unitVars>>

\* lifespan: webhook_service.start()
WebhookStart ==
    /\ session = "none"
    /\ session' = "open"
    /\ UNCHANGED <<webhooks, webhook_ops, send_events, nonWebhookVars>>

\* lifespan: webhook_service.stop()
WebhookStop ==
    /\ session = "open"
    /\ session' = "closed"
    /\ UNCHANGED <<webhooks, webhook_ops, send_events, nonWebhookVars>>

\* POST /api/webhooks
CreateWebhook(id, enabled, events) ==
    /\ webhook_ops < MaxWebhookOps
    /\ id \notin DOMAIN webhooks
    /\ webhooks' = Put(webhooks, id, WebhookConfig(id, enabled, events))
    /\ webhook_ops' = webhook_ops + 1
    /\ UNCHANGED <<session, send_events, nonWebhookVars>>

\* PUT /api/webhooks/{id} with enabled
UpdateEnabled(id, enabled) ==
    /\ webhook_ops < MaxWebhookOps
    /\ id \in DOMAIN webhooks
    /\ webhooks' = [webhooks EXCEPT ![id].enabled = enabled]
    /\ webhook_ops' = webhook_ops + 1
    /\ UNCHANGED <<session, send_events, nonWebhookVars>>

\* PUT /api/webhooks/{id} with events
UpdateEvents(id, events) ==
    /\ webhook_ops < MaxWebhookOps
    /\ id \in DOMAIN webhooks
    /\ webhooks' = [webhooks EXCEPT ![id].events = events]
    /\ webhook_ops' = webhook_ops + 1
    /\ UNCHANGED <<session, send_events, nonWebhookVars>>

\* DELETE /api/webhooks/{id}
DeleteWebhook(id) ==
    /\ webhook_ops < MaxWebhookOps
    /\ id \in DOMAIN webhooks
    /\ webhooks' = Del(webhooks, id)
    /\ webhook_ops' = webhook_ops + 1
    /\ UNCHANGED <<session, send_events, nonWebhookVars>>

\* a task created for send_alert or send_stream_status runs send_event
SendEvent(event_type) ==
    /\ Len(send_events) < MaxCalls
    /\ send_events' = Append(send_events, send_event(session, webhooks, event_type))
    /\ UNCHANGED <<session, webhooks, webhook_ops, nonWebhookVars>>

\* a coroutine of the gather runs up to its POST
SendToWebhook(c, w) ==
    /\ c \in DOMAIN send_events
    /\ w \in send_events[c].pending
    /\ send_events' = [send_events EXCEPT ![c] = send_to_webhook(session, @, w)]
    /\ UNCHANGED <<session, webhooks, webhook_ops, nonWebhookVars>>

\* the POST of a coroutine ended
PostDone(c, w, outcome) ==
    /\ c \in DOMAIN send_events
    /\ w \in send_events[c].posting
    /\ send_events' = [send_events EXCEPT ![c] = PostEnded(@, w, outcome)]
    /\ UNCHANGED <<session, webhooks, webhook_ops, nonWebhookVars>>

WebhookNext ==
    \/ WebhookStart
    \/ WebhookStop
    \/ \E id \in WebhookIds, enabled \in BOOLEAN, events \in EventLists \cup {NoList} :
          CreateWebhook(id, enabled, events)
    \/ \E id \in WebhookIds, enabled \in BOOLEAN : UpdateEnabled(id, enabled)
    \/ \E id \in WebhookIds, events \in EventLists : UpdateEvents(id, events)
    \/ \E id \in WebhookIds : DeleteWebhook(id)
    \/ \E event_type \in EventTypes : SendEvent(event_type)
    \/ \E c \in 1..MaxCalls, w \in WebhookIds : SendToWebhook(c, w)
    \/ \E c \in 1..MaxCalls, w \in WebhookIds, outcome \in PostOutcomes : PostDone(c, w, outcome)

SpecWebhook == Init /\ [][WebhookNext]_vars

\* ------------------------------------------------------------------------
\* The events of one segment: a stream with websocket subscribers whose
\* playlist lists one segment.  The runs explored are those in which the TS
\* analysis, run in a thread, returns when no broadcast of the segment task is
\* under way.
\* ------------------------------------------------------------------------
MaxPubSegments == 1

\* the websockets, in the order in which they connect
PubConns == <<"c1", "c2", "c3">>
\* the TSMetrics of a clean segment and of one with a continuity error
TsResults == {NoTsResult, [NoTsResult EXCEPT !.continuity_errors = 1]}

\* websocket_endpoint: ws_manager.connect
PubConnect(websocket, stream_id) ==
    /\ Cardinality(accepted) < Len(PubConns)
    /\ websocket = PubConns[Cardinality(accepted) + 1]
    /\ stream_id \in DOMAIN active_streams
    /\ Advance([st |-> connect(State, websocket, stream_id), at |-> analysis_tasks])

\* the supervisor's _fetch_manifest returned the playlist
PubFetch(stream_id) ==
    /\ stream_id \in DOMAIN monitoring_tasks
    /\ monitoring_tasks[stream_id].pc = "fetch"
    /\ tasks_spawned.segment < MaxPubSegments
    /\ \E r \in SupFetched(State, stream_id, MediaOne) :
          Advance([st |-> r, at |-> analysis_tasks])

\* a send_text awaited by the supervisor's broadcast returned
PubSupSendDone(stream_id) ==
    /\ stream_id \in DOMAIN monitoring_tasks
    /\ monitoring_tasks[stream_id].pc = "send"
    /\ \E r \in SupSent(State, stream_id, TRUE) :
          Advance([st |-> r, at |-> analysis_tasks])

\* the thread of ts_analyzer.analyze_segment returned metrics m
PubTsDone(a, m) ==
    /\ \A t \in DOMAIN segment_tasks : segment_tasks[t].pc # "send"
    /\ TsDone(a, m)

PubTaskIds == 1..MaxPubSegments
PubAnalysisIds == 1..(2 * MaxPubSegments)

PubNext ==
    \/ BufAddStream
    \/ \E websocket \in Range(PubConns), stream_id \in Streams : PubConnect(websocket, stream_id)
    \/ \E stream_id \in Streams : PubFetch(stream_id)
    \/ \E stream_id \in Streams : PubSupSendDone(stream_id)
    \/ \E t \in PubTaskIds, d \in Downloads : DownloadOk(t, d)
    \/ \E t \in PubTaskIds : ProbeDone(t)
    \/ \E t \in PubTaskIds : ThumbDone(t)
    \/ \E t \in PubTaskIds : SendDone(t, TRUE)
    \/ \E t \in PubTaskIds : LogDone(t)
    \/ \E a \in PubAnalysisIds : LoudnessDone(a)
    \/ \E a \in PubAnalysisIds, m \in TsResults : PubTsDone(a, m)
    \/ \E a \in PubAnalysisIds : AnalysisSendDone(a, TRUE)
    \/ \E a \in PubAnalysisIds : AnalysisLogDone(a)

SpecPublish == Init /\ [][PubNext]_vars

\* ------------------------------------------------------------------------
\* The metrics of one segment on their own
\* ------------------------------------------------------------------------
\* sizes: empty, one byte, two bytes (a quotient half way between two
\* thousandths with a time of 32 ms), and files of 0.75 and 1 MB
SegmentSizes == {0, 1, 2, 750000, 1000000}
\* (time.time() - download_start) * 1000: nothing, a clock set back, and
\* times that divide the sizes evenly, half way and otherwise
DownloadTimes == {0, 0 - 5, 32, 250, 7000}
\* ffprobe: a failure, and the durations 0, below 0, 32 ms, 4 s and 6 s
Probes == {[returncode |-> 1, duration |-> 0]} \cup [returncode : {0}, duration : {0, 0 - 1000, 32, 4000, 6000}]

MetricsInit ==
    /\ InitServices
    /\ VariantIdle
    /\ LogInit
    /\ TsIdle
    /\ ComputeIdle
    /\ AnalysisIdle
    /\ WebhookIdle
    /\ segment_data \in [size : SegmentSizes, download_time : DownloadTimes, ttfb : {600}, probe : Probes]
    /\ calculated = [called |-> FALSE, metrics |-> NoSegmentMetrics]
    /\ SharedIdle
    /\ LockIdle
    /\ FileIdle

nonMetricsVars == <<alertVars, registryVars, taskVars, thumbVars, busVars, emitted, variantVars, logVars, tsVars, computeVars, analysisVars, webhookVars, sharedVars, lockVars, fileVars>>

\* _process_segment: metrics = SegmentMetrics(...) for the downloaded segment
RecordMetrics ==
    /\ ~calculated.called
    /\ \E metrics \in SegmentMetricsOf(segment_data) :
         calculated' = [called |-> TRUE, metrics |-> metrics]
    /\ UNCHANGED <<segment_data, nonMetricsVars>>

MetricsNext == RecordMetrics

SpecMetrics == MetricsInit /\ [][MetricsNext]_vars

\* ------------------------------------------------------------------------
\* The alert engine while the error rate of a stream rises and falls
\* ------------------------------------------------------------------------
\* error rates below the warning threshold, on it, and on the critical one
EscalationInputs ==
    {Healthy,
     [Healthy EXCEPT !.error_rate = ERROR_RATE_WARNING],
     [Healthy EXCEPT !.error_rate = ERROR_RATE_CRITICAL]}

EscalationNext ==
    \/ \E stream_id \in Streams, metrics \in EscalationInputs :
          CheckHealthThresholds(stream_id, 70, metrics)
    \/ \E stream_id \in Streams, alert_type \in TypeInputs, severity \in SeverityInputs,
          metadata \in MetadataInputs :
          RaiseAlert(stream_id, alert_type, severity, metadata)
    \/ \E stream_id \in Streams, alert_type \in TypeInputs : ResolveAlert(stream_id, alert_type)
    \/ \E stream_id \in Streams, alert_id \in 1..MaxAlerts : AcknowledgeAlert(stream_id, alert_id)
    \/ Tick

SpecEscalation == Init /\ [][EscalationNext]_vars

\* ------------------------------------------------------------------------
\* The process-wide TSAnalyzer and the segments of two streams
\* ------------------------------------------------------------------------
MaxTsCalls == 3      \* analyze_segment calls made

\* the streams whose segments _analyze_ts hands to ts_analyzer
TsStreams == {"a", "b"}

\* segments of one or two payload packets of PID 0x100, with continuity
\* counters that follow one another or not, and with a PCR of 0 or 2^26
SharedSegments ==
    {<<MakePacket(SYNC_BYTE, FALSE, FALSE, 256, TRUE, cc, -1, 0, 0, -1, 0)>> : cc \in {5, 6, 9}}
    \cup {<<MakePacket(SYNC_BYTE, FALSE, FALSE, 256, TRUE, 5, -1, 0, 0, -1, 0), MakePacket(SYNC_BYTE, FALSE, FALSE, 256, TRUE, 6, -1, 0, 0, -1, 0)>>}
    \cup {<<MakePacket(SYNC_BYTE, FALSE, FALSE, 256, TRUE, 8, 7, 16, pcr6, -1, 0)>> : pcr6 \in {0, 2}}

\* _analyze_ts: asyncio.to_thread(ts_analyzer.analyze_segment, segment_path),
\* the calls of the worker threads taken one after the other
AnalyzeTs(stream_id, segment) ==
    /\ Len(ts_calls) < MaxTsCalls
    /\ LET r == analyze_segment(ts_analyzer, segment)
       IN  /\ ts_analyzer' = r.a
           /\ ts_calls' = Append(ts_calls, [stream_id |-> stream_id, segment |-> segment, metrics |-> r.metrics])
    /\ UNCHANGED <<ts_segment, ts_pos, ts_metrics, ts_initial, metricsVars, lockVars, fileVars, alertVars, registryVars, taskVars, thumbVars, busVars, emitted, variantVars, logVars, computeVars, analysisVars, webhookVars>>

SharedNext == \E stream_id \in TsStreams, segment \in SharedSegments : AnalyzeTs(stream_id, segment)

SpecShared == Init /\ [][SharedNext]_vars

\* ------------------------------------------------------------------------
\* The log store's writers and their per-file locks
\* ------------------------------------------------------------------------
MaxLockWrites == 3   \* write_event calls made
MaxLockTime == 2     \* the clock of the writers stops after this many half days

\* asyncio.Lock()
NewLock == [locked |-> FALSE, waiters |-> <<>>]

\* a _get_file_lock that makes a new lock at every call
GetFreshLock(locks, filepath) == Put(locks, filepath, NewLock)

\* LoggerService._get_file_lock: the dictionary after the call
get_file_lock(locks, filepath) == IF filepath \in DOMAIN locks THEN locks ELSE Put(locks, filepath, NewLock)

\* asyncio.Lock.acquire up to its await: the lock is taken at once when it is
\* free and nobody waits for it, else the caller queues
Acquire(locks, filepath, id) ==
    IF ~locks[filepath].locked /\ locks[filepath].waiters = <<>>
    THEN [locks |-> [locks EXCEPT ![filepath].locked = TRUE], got |-> TRUE]
    ELSE [locks |-> [locks EXCEPT ![filepath].waiters = Append(@, id)], got |-> FALSE]

\* asyncio.Lock.release: the first waiter is woken and takes the lock when it runs
Release(locks, filepath) == [locks EXCEPT ![filepath].locked = FALSE]

\* lock = self._get_file_lock(str(log_file)); async with lock: up to the
\* first await, which is the wait for the lock or aiofiles.open
EnterAppend(locks, apps, id, log_file) ==
    LET r == Acquire(get_file_lock(locks, log_file), log_file, id)
    IN  [locks |-> r.locks,
         apps |-> Put(apps, id, [log_file |-> log_file, step |-> IF r.got THEN "open" ELSE "lock"])]

\* the end of `async with lock`, and write_event up to its next await: a
\* call with the stream_id argument goes on to _write_to_global_log, any
\* other call returns
LeaveAppend(locks, apps, writes, id) ==
    LET w == writes[id]
        released == Release(locks, apps[id].log_file)
    IN  IF w.pc = "file" /\ w.arg # None
        THEN LET e == EnterAppend(released, apps, id, LogFilename(w.now, None))
             IN  [locks |-> e.locks, apps |-> e.apps, writes |-> [writes EXCEPT ![id].pc = "global"]]
        ELSE [locks |-> released, apps |-> Del(apps, id), writes |-> Del(writes, id)]

lockFrame == <<alertVars, registryVars, taskVars, thumbVars, busVars, emitted, variantVars, tsVars, computeVars, analysisVars, webhookVars, metricsVars, sharedVars, fileVars, log_rotation, log_deleted>>

\* a caller awaits write_event or spawns it as a task
LockWriteEvent(call) ==
    /\ log_counter < MaxLockWrites
    /\ log_counter' = log_counter + 1
    /\ LET id == log_counter + 1
           w == write_event(call, id, log_clock)
           e == EnterAppend(file_locks, appends, id, PendingFile(w))
       IN  /\ log_writes' = Put(log_writes, id, w)
           /\ file_locks' = e.locks
           /\ appends' = e.apps
    /\ UNCHANGED <<log_files, log_clock, log_written, lockFrame>>

\* the first waiter of a released lock runs and takes it
LockAcquired(id) ==
    /\ id \in DOMAIN appends
    /\ appends[id].step = "lock"
    /\ LET lock == file_locks[appends[id].log_file]
       IN  /\ ~lock.locked
           /\ lock.waiters # <<>>
           /\ Head(lock.waiters) = id
           /\ file_locks' = [file_locks EXCEPT ![appends[id].log_file] = [locked |-> TRUE, waiters |-> Tail(lock.waiters)]]
    /\ appends' = [appends EXCEPT ![id].step = "open"]
    /\ UNCHANGED <<log_files, log_clock, log_counter, log_writes, log_written, lockFrame>>

\* aiofiles.open(log_file, mode='a') returned the file, or raised: the
\* exception is logged inside the lock
AppendOpened(id, ok) ==
    /\ id \in DOMAIN appends
    /\ appends[id].step = "open"
    /\ IF ok
       THEN /\ appends' = [appends EXCEPT ![id].step = "write"]
            /\ UNCHANGED <<file_locks, log_writes>>
       ELSE LET r == LeaveAppend(file_locks, appends, log_writes, id)
            IN  /\ file_locks' = r.locks
                /\ appends' = r.apps
                /\ log_writes' = r.writes
    /\ UNCHANGED <<log_files, log_clock, log_counter, log_written, lockFrame>>

\* await f.write(log_line): the line is in the buffer of the file object
AppendWritten(id) ==
    /\ id \in DOMAIN appends
    /\ appends[id].step = "write"
    /\ appends' = [appends EXCEPT ![id].step = "close"]
    /\ UNCHANGED <<file_locks, log_files, log_clock, log_counter, log_writes, log_written, lockFrame>>

\* the end of `async with aiofiles.open(...)`: the buffer is flushed to the
\* end of the file and the file closed; then the lock is released
AppendClosed(id) ==
    /\ id \in DOMAIN appends
    /\ appends[id].step = "close"
    /\ LET w == log_writes[id]
           log_file == appends[id].log_file
           r == LeaveAppend(file_locks, appends, log_writes, id)
       IN  /\ log_files' = AppendLine(log_files, log_file, w.event)
           /\ log_written' = log_written \cup {[event |-> w.event, dir |-> log_file.dir, time |-> w.now]}
           /\ file_locks' = r.locks
           /\ appends' = r.apps
           /\ log_writes' = r.writes
    /\ UNCHANGED <<log_clock, log_counter, lockFrame>>

\* time passes: the writers of one day, and those of the next
LockTick == log_clock < MaxLockTime /\ LogTick

LockWriteIds == 1..(MaxLockWrites + 1)

LockNext ==
    \/ \E call \in LogCalls : LockWriteEvent(call)
    \/ \E id \in LockWriteIds : LockAcquired(id)
    \/ \E id \in LockWriteIds, ok \in BOOLEAN : AppendOpened(id, ok)
    \/ \E id \in LockWriteIds : AppendWritten(id)
    \/ \E id \in LockWriteIds : AppendClosed(id)
    \/ LockTick

SpecLock == Init /\ [][LockNext]_vars

\* ------------------------------------------------------------------------
\* analyze_segment reading a segment file to its end
\* ------------------------------------------------------------------------
\* the bytes behind the last complete chunk: none, one, or one short of a chunk
TailInputs == {0, 1, PACKET_SIZE - 1}

\* payload packets of PID 0x100, a PAT with a wrong table_id, a packet with a
\* PCR, null packets that carry a payload, a section start and a PCR, and
\* packets with a damaged sync byte whose other bytes set the error
\* indicator, start a splice_info_section or name the null PID
FilePackets ==
    {MakePacket(SYNC_BYTE, FALSE, FALSE, 256, TRUE, cc, -1, 0, 0, -1, 0) : cc \in {5, 9}}
    \cup {MakePacket(SYNC_BYTE, FALSE, TRUE, PID_PAT, TRUE, 7, -1, 0, 0, 0, 2),
          MakePacket(SYNC_BYTE, FALSE, FALSE, 256, TRUE, 8, 7, 16, 2, -1, 0),
          MakePacket(SYNC_BYTE, FALSE, TRUE, PID_NULL, TRUE, 7, -1, 0, 0, 0, SCTE35_TABLE_ID),
          MakePacket(SYNC_BYTE, FALSE, FALSE, PID_NULL, TRUE, 8, 7, 16, 0, -1, 0),
          MakePacket(0, TRUE, TRUE, 256, TRUE, 8, -1, 0, 0, 0, SCTE35_TABLE_ID),
          MakePacket(0, FALSE, FALSE, PID_NULL, TRUE, 8, 7, 16, 0, -1, 0)}

RECURSIVE FileLists(_)
FileLists(n) == IF n = 0 THEN {<<>>} ELSE LET shorter == FileLists(n - 1) IN shorter \cup {Append(f, p) : f \in {x \in shorter : Len(x) = n - 1}, p \in FilePackets}

FileInit ==
    /\ InitServices
    /\ VariantIdle
    /\ LogInit
    /\ ComputeIdle
    /\ AnalysisIdle
    /\ WebhookIdle
    /\ MetricsIdle
    /\ SharedIdle
    /\ LockIdle
    /\ ts_segment \in FileLists(MaxPackets)
    /\ ts_tail \in TailInputs
    /\ ts_pos = 0
    /\ ts_metrics = NewTSMetrics
    /\ ts_analyzer \in AnalyzerInputs
    /\ ts_initial = ts_analyzer
    /\ ts_returned = FALSE

\* len(f.read(188)) with ts_pos chunks read
ChunkLen == IF ts_pos < Len(ts_segment) THEN PACKET_SIZE ELSE ts_tail

\* one pass of `while True`: chunk = f.read(188); a short chunk ends the loop
\* and the call returns, a full one goes through the body of the loop
ReadChunk ==
    /\ ~ts_returned
    /\ IF ChunkLen < PACKET_SIZE
       THEN /\ ts_returned' = TRUE
            /\ UNCHANGED <<ts_pos, ts_metrics, ts_analyzer>>
       ELSE LET r == AnalyzeChunk(ts_analyzer, ts_metrics, ts_segment[ts_pos + 1], ts_pos + 1)
            IN  /\ ts_analyzer' = r.a
                /\ ts_metrics' = r.metrics
                /\ ts_pos' = ts_pos + 1
                /\ ts_returned' = FALSE
    /\ UNCHANGED <<ts_segment, ts_initial, ts_tail, metricsVars, sharedVars, lockVars, alertVars, registryVars, taskVars, thumbVars, busVars, emitted, variantVars, logVars, computeVars, analysisVars, webhookVars>>

FileNext == ReadChunk

SpecFile == FileInit /\ [][FileNext]_vars

\* ------------------------------------------------------------------------
\* The Monitor Engine with two streams
\* ------------------------------------------------------------------------
MaxFrameAdds == 2       \* supervisor tasks ever created
MaxFrameSegTasks == 2   \* segment-processing tasks ever created

FrameStreams == {"a", "b"}
FrameConfigs == [id : FrameStreams, manifest_url : {"media.m3u8"}]

\* the step stays within the bounds on the counters
WithinFrameBounds(st) ==
    /\ st.tasks_spawned.supervisor <= MaxFrameAdds
    /\ st.tasks_spawned.segment <= MaxFrameSegTasks
    /\ st.alert_counter <= MaxAlerts

FrameAddStream(stream_config) ==
    /\ stream_config.id \in DOMAIN active_streams \/ tasks_spawned.supervisor < MaxFrameAdds
    /\ SetState(add_stream(State, stream_config))

FrameSupFetchOk(stream_id, m) ==
    /\ stream_id \in DOMAIN monitoring_tasks
    /\ monitoring_tasks[stream_id].pc = "fetch"
    /\ \E r \in SupFetched(State, stream_id, m) : WithinFrameBounds(r) /\ SetState(r)

FrameSupSendDone(stream_id, ok) ==
    /\ stream_id \in DOMAIN monitoring_tasks
    /\ monitoring_tasks[stream_id].pc = "send"
    /\ \E r \in SupSent(State, stream_id, ok) : WithinFrameBounds(r) /\ SetState(r)

FrameSegProbeDone(t) ==
    /\ t \in DOMAIN segment_tasks
    /\ segment_tasks[t].pc = "probe"
    /\ \E r \in SegProbed(State, t) : WithinFrameBounds(r) /\ SetState(r)

FrameTaskIds == 1..(MaxFrameSegTasks + 1)

FrameNext ==
    \/ \E stream_config \in FrameConfigs : FrameAddStream(stream_config)
    \/ \E stream_id \in FrameStreams : RemoveStream(stream_id)
    \/ \E stream_id \in FrameStreams : SupFetchFail(stream_id)
    \/ \E stream_id \in FrameStreams : FrameSupFetchOk(stream_id, MediaOne)
    \/ \E stream_id \in FrameStreams, ok \in BOOLEAN : FrameSupSendDone(stream_id, ok)
    \/ \E stream_id \in FrameStreams : SupWake(stream_id)
    \/ \E t \in FrameTaskIds : SegDownloadFail(t)
    \/ \E t \in FrameTaskIds, d \in Downloads : SegDownloadOk(t, d)
    \/ \E t \in FrameTaskIds : FrameSegProbeDone(t)
    \/ \E t \in FrameTaskIds : SegThumbDone(t)
    \/ \E t \in FrameTaskIds, ok \in BOOLEAN : SegSendDone(t, ok)
    \/ \E t \in FrameTaskIds : SegLogDone(t)
    \/ \E websocket \in Conns, stream_id \in FrameStreams : Connect(websocket, stream_id)
    \/ \E websocket \in Conns, stream_id \in FrameStreams : Disconnect(websocket, stream_id)

SpecFrame == Init /\ [][FrameNext]_vars

\* ------------------------------------------------------------------------
\* Properties
\* ------------------------------------------------------------------------
\* the alerts the engine holds: those of the active map and of the history
HeldAlerts ==
    Referenced(active_alerts, alert_history)
UnresolvedHeld(stream_id, alert_type) ==
    {r \in HeldAlerts : /\ alerts[r].stream_id = stream_id
                        /\ alerts[r].alert_type = alert_type
                        /\ ~alerts[r].resolved}

\* C1: for every (stream_id, alert_type) the alerts held by the engine, in the
\* active map and the history together, with resolved = false are at most one.
C1_AtMostOneUnresolved ==
    \A stream_id \in Streams, alert_type \in AlertType :
        Cardinality(UnresolvedHeld(stream_id, alert_type)) <= 1

\* C2: no two processed segments of a stream have the same sequence_number or the
\* same file name ({stream_id}_{seq}.ts), and the sequence numbers increase along
\* the stream's metrics history.
C2_SequenceNumbersDistinct ==
    \A stream_id \in DOMAIN metrics_history :
        \A i, j \in DOMAIN metrics_history[stream_id] :
            i < j => /\ metrics_history[stream_id][i].sequence_number
                          < metrics_history[stream_id][j].sequence_number
                     /\ metrics_history[stream_id][i].filename
                          # metrics_history[stream_id][j].filename

\* the keyed registries that hold an entry for stream_id
RegistriesHolding(stream_id) ==
    {<<"active_streams", stream_id \in DOMAIN active_streams>>,
     <<"monitoring_tasks", stream_id \in DOMAIN monitoring_tasks>>,
     <<"seen_segments", stream_id \in DOMAIN seen_segments>>,
     <<"stream_metrics", stream_id \in DOMAIN stream_metrics>>,
     <<"segment_counter", stream_id \in DOMAIN segment_counter>>,
     <<"thumbnails_buffer", stream_id \in DOMAIN thumbnails_buffer>>,
     <<"stream_health", stream_id \in DOMAIN stream_health>>,
     <<"last_manifest_state", stream_id \in DOMAIN last_manifest_state>>,
     <<"metrics_history", stream_id \in DOMAIN metrics_history>>,
     <<"scte35_events", stream_id \in DOMAIN scte35_events>>,
     <<"loudness_history", stream_id \in DOMAIN loudness_history>>,
     <<"tracking", \E d \in DOMAIN tracking : stream_id \in tracking[d]>>,
     <<"_active_alerts", stream_id \in DOMAIN active_alerts>>,
     <<"_cache", stream_id \in DOMAIN thumb_cache>>,
     <<"_thumbnail_registry", stream_id \in DOMAIN thumbnail_registry>>}

\* C3: when remove_stream(id) returns for a monitored stream, no keyed registry
\* contains id: not the engine's dictionaries, not the active-alert map, not the
\* thumbnail cache and registry.
C3_RemoveEvictsEveryRegistry ==
    [][\A stream_id \in Streams :
          (stream_id \in DOMAIN active_streams /\ RemoveStream(stream_id))
          => \A reg \in RegistriesHolding(stream_id)' : ~reg[2]]_vars

\* C4: no event of a stream that is not monitored (it was removed and not added
\* again) is sent to a subscriber of the bus.
C4_NoEventOfRemovedStream ==
    \A e \in emitted : e.ch = "send" => e.stream_id \in DOMAIN active_streams

\* C5: the supervisor of a monitored stream (its task not cancelled) never ends:
\* no failure, also inside the loop's error handling, takes it out of the loop.
C5_SupervisorNeverEnds ==
    \A stream_id \in DOMAIN monitoring_tasks : monitoring_tasks[stream_id].pc # "dead"

\* C6: add_stream(config) with an ID already monitored changes no registry, no
\* task (the supervisor is kept, none is created), nothing of the alert engine,
\* the thumbnails or the bus, and creates no stream_added log event.
C6_DuplicateAddIsNoOp ==
    [][\A stream_config \in Configs :
          (stream_config.id \in DOMAIN active_streams /\ AddStream(stream_config))
          => /\ UNCHANGED <<registryVars, taskVars, alertVars, thumbVars, busVars>>
             /\ \A e \in emitted' : e.type # "stream_added"]_vars

\* a stream with segments seen and counted was added again, with another config
C6_Witness ==
    \E e \in emitted :
        /\ e.ch = "logger" /\ e.type = "already being monitored"
        /\ e.stream_id \in DOMAIN active_streams
        /\ seen_segments[e.stream_id] # {}
        /\ segment_counter[e.stream_id] > 0
        /\ \E stream_config \in Configs :
              stream_config.id = e.stream_id /\ stream_config # active_streams[e.stream_id]

\* the segment tasks created by the step
Spawned == {t \in DOMAIN segment_tasks' : t > tasks_spawned.segment}

\* C7: a step spawns a segment task only for a URI that was not in the stream's
\* seen-set, the URI is in the seen-set after the step, no two tasks of the step
\* are for the same URI, and a seen-set loses no URI while the stream is monitored:
\* so from add_stream to remove_stream each URI gets at most one task.
C7_OneTaskPerURI ==
    [][/\ \A t \in Spawned :
            LET stream_id == segment_tasks'[t].stream_id
                url == segment_tasks'[t].url
            IN  /\ stream_id \in DOMAIN seen_segments
                /\ url \notin seen_segments[stream_id]
                /\ stream_id \in DOMAIN seen_segments'
                /\ url \in seen_segments'[stream_id]
                /\ \A t2 \in Spawned \ {t} :
                      segment_tasks'[t2].stream_id = stream_id
                      => segment_tasks'[t2].url # url
       /\ \A stream_id \in DOMAIN seen_segments \cap DOMAIN seen_segments' :
            seen_segments[stream_id] \subseteq seen_segments'[stream_id]]_vars

\* two URIs were seen and two tasks spawned, and the last completed poll was of
\* the playlist that lists the first of them again
C7_Witness ==
    \E stream_id \in DOMAIN monitoring_tasks :
        /\ seen_segments[stream_id] = {"s1", "s2"}
        /\ tasks_spawned.segment = 2
        /\ monitoring_tasks[stream_id].pc = "sleep"
        /\ "variant_count" \in DOMAIN last_manifest_state[stream_id]
        /\ last_manifest_state[stream_id].variant_count = Len(MediaOne.variants)

PublishedError(stream_id) ==
    \E e \in emitted' : e.ch = "publish" /\ e.type = "error" /\ e.stream_id = stream_id

\* C8: when a manifest fetch fails the supervisor sets the stream's status to
\* ERROR and publishes an error event for the stream.
C8_FetchFailureReported ==
    [][\A stream_id \in Streams :
          SupFetchFail(stream_id)
          => /\ stream_health'[stream_id].status = "error"
             /\ PublishedError(stream_id)]_vars

\* C9: when the download of a segment fails an error event is published for the
\* segment's stream.
C9_DownloadFailureReported ==
    [][\A t \in TaskIds :
          SegDownloadFail(t) => PublishedError(segment_tasks[t].stream_id)]_vars

\* C10: the variant selected from a master playlist has the greatest bandwidth of
\* the listed variants, and every variant listed before it has a smaller one.
C10_FirstOfGreatestBandwidth ==
    (best_variant.called /\ ~best_variant.raised)
    => \E i \in DOMAIN variant_streams :
          /\ best_variant.value = variant_streams[i]
          /\ \A j \in DOMAIN variant_streams :
                variant_streams[j].bandwidth <= variant_streams[i].bandwidth
          /\ \A j \in 1..(i - 1) :
                variant_streams[j].bandwidth < variant_streams[i].bandwidth

\* a selection among three variants of which the last two share the greatest bandwidth
C10_Witness ==
    /\ best_variant.called /\ ~best_variant.raised
    /\ Len(variant_streams) = 3
    /\ variant_streams[1].bandwidth < variant_streams[2].bandwidth
    /\ variant_streams[2].bandwidth = variant_streams[3].bandwidth
    /\ best_variant.value.uri = 2

\* a playlist without segments that lists variants: `if not segments and variant_streams`
IsMaster(m) == m.segments = <<>> /\ m.variants # <<>>

\* the master playlists of the environment
Masters == {m \in Manifests : IsMaster(m)}

\* the master playlists that list one variant or a BANDWIDTH for every variant
MastersWithBandwidth ==
    {m \in Masters : Len(m.variants) = 1
                     \/ \A i \in DOMAIN m.variants : m.variants[i].bandwidth # NoBandwidth}

\* the supervisor is awaiting _fetch_manifest(uri) without having slept
FetchingNext(stream_id, uri) ==
    /\ stream_id \in DOMAIN monitoring_tasks'
    /\ monitoring_tasks'[stream_id].pc = "fetch"
    /\ monitoring_tasks'[stream_id].current_url = uri

C12_VariantSelectedPublished ==
    [][\A stream_id \in Streams : \A m \in MastersWithBandwidth :
          SupFetchOk(stream_id, m)
          => \E e \in emitted' :
                e.ch = "publish" /\ e.type = "variant_selected" /\ e.stream_id = stream_id]_vars

\* the alert types with an unresolved alert in the stream's active map
ActiveTypes(st, stream_id) ==
    {st.alerts[r].alert_type : r \in get_active_alerts(st, stream_id)}

\* the record the stream's active map holds for the type, None without one
ActiveRef(st, stream_id, alert_type) ==
    IF stream_id \in DOMAIN st.active_alerts /\ alert_type \in DOMAIN st.active_alerts[stream_id]
    THEN st.active_alerts[stream_id][alert_type] ELSE None

\* C13: a check_health_thresholds call with a score below 40 leaves
\* HEALTH_CRITICAL unresolved and HEALTH_DEGRADED as it was; with a score in
\* [40,60) it leaves HEALTH_CRITICAL resolved and HEALTH_DEGRADED unresolved, in
\* the record that was unresolved before if there was one and in a new record
\* otherwise; with a score of 60 or more it leaves both resolved.  So from no
\* alerts the scores 45, 35, 55, 70 raise HEALTH_DEGRADED, raise HEALTH_CRITICAL
\* next to it, resolve HEALTH_CRITICAL keeping the HEALTH_DEGRADED record, and
\* resolve HEALTH_DEGRADED.
C13_HealthScoreLadder ==
    [][\A stream_id \in Streams, health_score \in ScoreInputs, metrics \in MetricInputs :
          CheckHealthThresholds(stream_id, health_score, metrics)
          => LET before == ActiveTypes(State, stream_id)
                 after == ActiveTypes(State, stream_id)'
                 degraded == ActiveRef(State, stream_id, "health_degraded")
                 critical == ActiveRef(State, stream_id, "health_critical")
             IN  /\ health_score < 40
                    => /\ "health_critical" \in after
                       /\ "health_degraded" \in after <=> "health_degraded" \in before
                       /\ ActiveRef(State, stream_id, "health_degraded")' = degraded
                 /\ (health_score >= 40 /\ health_score < 60)
                    => /\ "health_critical" \notin after
                       /\ "health_degraded" \in after
                       /\ ActiveRef(State, stream_id, "health_critical")' = critical
                       /\ IF "health_degraded" \in before
                          THEN /\ ActiveRef(State, stream_id, "health_degraded")' = degraded
                               /\ alert_counter' = alert_counter
                                     + Cardinality(after \ (before \cup {"health_degraded"}))
                          ELSE ActiveRef(State, stream_id, "health_degraded")' \notin DOMAIN alerts
                 /\ health_score >= 60
                    => /\ "health_critical" \notin after
                       /\ "health_degraded" \notin after
                       /\ ActiveRef(State, stream_id, "health_critical")' = critical
                       /\ ActiveRef(State, stream_id, "health_degraded")' = degraded]_vars

\* the two records of the scores 45, 35, 55, 70: HEALTH_DEGRADED raised at 45 and
\* refreshed at 55, HEALTH_CRITICAL raised at 35 after it, both resolved
C13_Witness ==
    /\ alert_history = <<1, 2>>
    /\ alerts[1].alert_type = "health_degraded" /\ alerts[1].message.value = 45
    /\ alerts[1].metadata.health_score = 55 /\ alerts[1].resolved
    /\ alerts[2].alert_type = "health_critical" /\ alerts[2].message.value = 35
    /\ alerts[2].resolved
    /\ ActiveTypes(State, alerts[1].stream_id) = {}

\* C14: after every check_health_thresholds call the stream has an unresolved
\* HEALTH_DEGRADED alert if and only if the score passed is below 60.
C14_DegradedIffBelowWarning ==
    [][\A stream_id \in Streams, health_score \in ScoreInputs, metrics \in MetricInputs :
          CheckHealthThresholds(stream_id, health_score, metrics)
          => ("health_degraded" \in ActiveTypes(State, stream_id)' <=> health_score < 60)]_vars

\* C15: after every check_health_thresholds call HEALTH_CRITICAL is unresolved
\* for the stream iff score < 40, HIGH_ERROR_RATE iff error_rate >= 1 %,
\* CONTINUITY_ERRORS iff count >= 5, HIGH_TTFB iff ttfb_avg >= 500 ms and
\* SLOW_DOWNLOAD iff download_ratio <= 0.8.
C15_UnresolvedIffRaiseCondition ==
    [][\A stream_id \in Streams, health_score \in ScoreInputs, metrics \in MetricInputs :
          CheckHealthThresholds(stream_id, health_score, metrics)
          => LET after == ActiveTypes(State, stream_id)'
             IN  /\ "health_critical" \in after <=> health_score < 40
                 /\ "high_error_rate" \in after <=> metrics.error_rate >= 100
                 /\ "continuity_errors" \in after <=> metrics.continuity_errors >= 5
                 /\ "high_ttfb" \in after <=> metrics.ttfb_avg >= 500
                 /\ "slow_download" \in after <=> metrics.download_ratio <= 80]_vars

\* a HIGH_TTFB alert raised at 500 ms is unresolved next to a SLOW_DOWNLOAD alert
\* raised at 0.8 that a later call with 0.81 resolved
C15_Witness ==
    \E stream_id \in Streams :
        /\ ActiveTypes(State, stream_id) = {"high_ttfb"}
        /\ alerts[ActiveRef(State, stream_id, "high_ttfb")].metadata.ttfb_ms = 500
        /\ "slow_download" \in DOMAIN active_alerts[stream_id]
        /\ alerts[ActiveRef(State, stream_id, "slow_download")].metadata.ratio = 80
        /\ alerts[ActiveRef(State, stream_id, "slow_download")].resolved

\* dict.update: the keys of new replace or extend those of old
Merged(old, new) ==
    [k \in DOMAIN old \cup DOMAIN new |-> IF k \in DOMAIN new THEN new[k] ELSE old[k]]

\* the raise found an unresolved alert of the type in the stream's active map:
\* nothing is added, the record's timestamp is refreshed and the metadata merged
Deduplicated(stream_id, alert_type, metadata) ==
    LET ref == ActiveRef(State, stream_id, alert_type)
    IN  /\ alert_history' = alert_history
        /\ webhook_tasks' = webhook_tasks
        /\ alert_counter' = alert_counter
        /\ active_alerts' = active_alerts
        /\ alerts' = [alerts EXCEPT ![ref].timestamp = now,
                                    ![ref].metadata = Merged(alerts[ref].metadata, metadata)]

\* the raise created one record: appended to the history, put in the active map,
\* and one send_alert task created for it
RaisedNew(stream_id, alert_type) ==
    LET id == alert_counter + 1
    IN  /\ alert_counter' = id
        /\ alert_history' = Append(alert_history, id)
        /\ webhook_tasks' = Append(webhook_tasks, id)
        /\ ActiveRef(State, stream_id, alert_type)' = id
        /\ ~alerts'[id].resolved

\* C16: a raise for a (stream, type) whose active alert is unresolved adds no
\* record to the history and creates no alert_raised webhook task, it refreshes
\* the record's timestamp and merges the metadata; every other raise creates
\* exactly one record and exactly one alert_raised webhook task for it; and at
\* any time the webhook tasks created are one per record ever created.
C16_DedupedRaiseAddsNothing ==
    [][/\ \A stream_id \in Streams, alert_type \in TypeInputs, severity \in SeverityInputs,
             metadata \in MetadataInputs :
             RaiseAlert(stream_id, alert_type, severity, metadata)
             => IF alert_type \in ActiveTypes(State, stream_id)
                THEN Deduplicated(stream_id, alert_type, metadata)
                ELSE RaisedNew(stream_id, alert_type)
       /\ \A stream_id \in Streams, health_score \in {45, 55} :
             CheckHealthThresholds(stream_id, health_score, Healthy)
             => IF "health_degraded" \in ActiveTypes(State, stream_id)
                THEN /\ alert_history' = alert_history
                     /\ webhook_tasks' = webhook_tasks
                     /\ LET ref == ActiveRef(State, stream_id, "health_degraded")
                        IN  /\ ActiveRef(State, stream_id, "health_degraded")' = ref
                            /\ alerts'[ref].timestamp = now
                            /\ alerts'[ref].metadata =
                                  Merged(alerts[ref].metadata, [health_score |-> health_score])
                ELSE RaisedNew(stream_id, "health_degraded")
       /\ webhook_tasks' = [i \in 1..alert_counter' |-> i]]_vars

\* one HEALTH_DEGRADED record, raised at 45 and raised again an hour later at
\* 55, with one webhook task
C16_Witness ==
    \E stream_id \in Streams :
        /\ "health_degraded" \in ActiveTypes(State, stream_id)
        /\ LET ref == ActiveRef(State, stream_id, "health_degraded")
           IN  /\ alerts[ref].message.value = 45
               /\ alerts[ref].metadata.health_score = 55
               /\ alerts[ref].timestamp = 1
               /\ alert_history = <<ref>>
               /\ webhook_tasks = <<ref>>

\* resolve_alert on the unresolved active alert of (stream, type): resolved,
\* resolved_at recorded, the history as it was
ResolvedInPlace(stream_id, alert_type) ==
    LET ref == ActiveRef(State, stream_id, alert_type)
    IN  /\ ref \in Range(alert_history)
        /\ alerts' = [alerts EXCEPT ![ref].resolved = TRUE, ![ref].resolved_at = now]
        /\ alert_history' = alert_history
        /\ active_alerts' = active_alerts

\* the step is a cleanup_old_alerts call
IsCleanupOldAlerts == \E max_age_hours \in MaxAgeInputs : CleanupOldAlerts(max_age_hours)

\* C17 as stated: cleanup_old_alerts removes exactly the resolved alerts whose
\* resolved_at is older than (before) the cutoff.
C17_CleanupRemovesOlderThanCutoff ==
    [][\A max_age_hours \in MaxAgeInputs :
          CleanupOldAlerts(max_age_hours)
          => Range(alert_history') =
                {r \in Range(alert_history) :
                    ~(alerts[r].resolved /\ alerts[r].resolved_at < now - max_age_hours)}]_vars

\* C17: resolve_alert marks the unresolved alert of (stream, type) resolved with
\* resolved_at set and leaves it in the history; only a cleanup_old_alerts step
\* takes a record out of the history, and it takes out exactly the resolved alerts
\* whose resolved_at is at or before the cutoff, never an unresolved one.
C17_ResolveKeepsCleanupRemovesUpToCutoff ==
    [][/\ \A stream_id \in Streams, alert_type \in AlertType :
             (ResolveAlert(stream_id, alert_type) /\ alert_type \in ActiveTypes(State, stream_id))
             => ResolvedInPlace(stream_id, alert_type)
       /\ IsCleanupOldAlerts \/ Range(alert_history) \subseteq Range(alert_history')
       /\ \A max_age_hours \in MaxAgeInputs :
             CleanupOldAlerts(max_age_hours)
             => /\ Range(alert_history') =
                      {r \in Range(alert_history) :
                          ~(alerts[r].resolved /\ alerts[r].resolved_at <= now - max_age_hours)}
                /\ Len(alert_history') = Cardinality(Range(alert_history'))
                /\ \A r \in Range(alert_history) :
                      ~alerts[r].resolved => r \in Range(alert_history')]_vars

\* two records were resolved an hour apart; a cleanup took the first, resolved
\* at its cutoff, and the second, resolved after the cutoff, is in the history
C17_Witness ==
    /\ alert_counter = 2
    /\ now = 1
    /\ alert_history = <<2>>
    /\ alerts[2].resolved /\ alerts[2].resolved_at = 1

\* the alerts the engine holds for the stream, in the active map or the history
HeldFor(stream_id) == {r \in DOMAIN alerts : alerts[r].stream_id = stream_id}

\* acknowledge_alert returned the value to its caller
Returned(stream_id, value) ==
    emitted' = {Ev("return", stream_id, value, "acknowledge_alert")}

\* C18: acknowledge_alert(stream_id, alert_id) sets acknowledged on the alert
\* with that ID whenever the engine holds an alert with that ID for the stream,
\* and changes no alert when it holds none.
C18_AcknowledgeAnyHeldAlert ==
    [][\A stream_id \in Streams, alert_id \in 1..MaxAlerts :
          AcknowledgeAlert(stream_id, alert_id)
          => IF \E r \in HeldFor(stream_id) : alerts[r].alert_id = alert_id
             THEN /\ \E r \in HeldFor(stream_id) :
                        alerts[r].alert_id = alert_id /\ alerts'[r].acknowledged
                  /\ Returned(stream_id, "True")
             ELSE /\ alerts' = alerts
                  /\ Returned(stream_id, "False")]_vars

\* the subscriber set of stream_id in a connection map, empty without an entry
SubscribersOf(conns, stream_id) ==
    IF stream_id \in DOMAIN conns THEN conns[stream_id] ELSE {}

\* C19: connect(s, id) adds s to the subscriber set of id, disconnect(s, id)
\* removes it, a disconnect of a subscriber that is not registered changes
\* nothing, and after every connect, disconnect or broadcast step no stream ID
\* maps to an empty subscriber set.
C19_NoEmptySubscriberSet ==
    [][/\ \A stream_id \in DOMAIN active_connections' : active_connections'[stream_id] # {}
       /\ \A websocket \in BusConns, stream_id \in Streams :
             /\ Connect(websocket, stream_id)
                => active_connections' =
                      Put(active_connections, stream_id,
                          SubscribersOf(active_connections, stream_id) \cup {websocket})
             /\ Disconnect(websocket, stream_id)
                => IF websocket \in SubscribersOf(active_connections, stream_id)
                   THEN /\ SubscribersOf(active_connections', stream_id) =
                              SubscribersOf(active_connections, stream_id) \ {websocket}
                        /\ \A other \in Streams \ {stream_id} :
                              SubscribersOf(active_connections', other) =
                                 SubscribersOf(active_connections, other)
                   ELSE UNCHANGED <<active_connections, broadcasts>>]_vars

\* every websocket has connected, two of them have left or were evicted, and
\* the entry holds the third
C19_Witness ==
    /\ accepted = BusConns
    /\ \E stream_id \in Streams :
          /\ DOMAIN active_connections = {stream_id}
          /\ Cardinality(active_connections[stream_id]) = 1

\* the step completes broadcast b: its last send_text ended and broadcast returned
Completes(b, ok) ==
    /\ BusSendDone(b, ok)
    /\ Ev("return", broadcasts[b].stream_id, "None", "broadcast") \in emitted'

\* the connections broadcast b has called send_text on, and those whose send raised,
\* when its pending send_text ends with ok
SentTo(b) == broadcasts[b].bc.visited \cup {broadcasts[b].bc.cur}
FailedOf(b, ok) == broadcasts[b].bc.failed \cup (IF ok THEN {} ELSE {broadcasts[b].bc.cur})

\* no step of broadcast b calls send_text on a connection it already sent to
SendsOnce(b) ==
    \A ok \in BOOLEAN :
        (BusSendDone(b, ok) /\ b \in DOMAIN broadcasts')
        => broadcasts'[b].bc.cur \notin SentTo(b)

WriteReturns(id) == id \in DOMAIN log_writes /\ id \notin DOMAIN log_writes'
\* no append of the call failed
WriteSucceeded(id) == ~log_writes[id].failed /\ log_written' # log_written
\* the event of a call was appended to the daily file of directory dir
AppendedTo(w, dir) == [event |-> w.event, dir |-> dir, time |-> w.now] \in log_written'

\* C21: every logged event that carries a stream ID is appended both to that
\* stream's daily file and to the global daily file, however the stream ID
\* reaches the log store; an event without a stream ID goes to the global
\* file only.
C21_StreamEventInBothFiles ==
    [][\A id \in DOMAIN log_writes :
          (WriteReturns(id) /\ WriteSucceeded(id))
          => LET w == log_writes[id]
             IN  /\ AppendedTo(w, None)
                 /\ w.event.stream_id # None => AppendedTo(w, w.event.stream_id)
                 /\ w.event.stream_id = None
                    => \A s \in Streams : ~AppendedTo(w, s)]_vars

\* the daily file an append went to has not been deleted for age
NotDeleted(a) == \A f \in log_deleted : ~(f.dir = a.dir /\ f.day = DateOf(a.time))

\* C22: an event written for stream s at time T is returned by
\* read_events(T, T, stream_id = s) while its daily file is plain and after
\* rotation has compressed it, until the file is deleted for age.
C22_WrittenEventIsRead ==
    \A a \in log_written :
        (a.dir # None /\ NotDeleted(a))
        => a.event \in Range(read_events(log_files, a.time, a.time, a.dir, None, DEFAULT_LIMIT))

\* ---- the MPEG-TS analyzer -----------------------------------------------
\* the pass of the loop over the next chunk is made in this step
ReadsChunk == ts_pos' = ts_pos + 1
\* the header of the i-th chunk of the segment
HeaderAt(i) == ParseHeader(ts_segment[i])
\* the chunk is a payload-carrying packet on the PID, with a good sync byte
PayloadOn(chunk, pid) == ByteAt(chunk, 0) = SYNC_BYTE /\ ParseHeader(chunk).has_payload /\ ParseHeader(chunk).pid = pid
\* the analyzer call has read the whole file
Analyzed == ts_pos = Len(ts_segment)

\* C23: a payload packet whose continuity counter equals the last counter
\* seen on its PID, or that counter plus one mod 16, never increases
\* continuity_errors, and neither does the first packet seen on a PID; a
\* packet without payload is not checked and leaves the tracked counter alone.
C23_ContinuityTolerance ==
    [][ReadsChunk
       => LET h == HeaderAt(ts_pos + 1)
              trackers == ts_analyzer.cc_trackers
          IN  /\ (/\ h.has_payload
                  /\ h.pid \in DOMAIN trackers
                  /\ h.cc \in {trackers[h.pid].last_cc, (trackers[h.pid].last_cc + 1) % 16})
                 => ts_metrics'.continuity_errors = ts_metrics.continuity_errors
              /\ h.pid \notin DOMAIN trackers
                 => ts_metrics'.continuity_errors = ts_metrics.continuity_errors
              /\ ~h.has_payload
                 => /\ ts_metrics'.continuity_errors = ts_metrics.continuity_errors
                    /\ ts_analyzer'.cc_trackers = trackers]_vars

\* a repeated counter, a counter advanced by one and an adaptation-only
\* packet have been read on a tracked PID without an error being counted
C23_Witness ==
    /\ ts_pos = 3
    /\ PayloadOn(ts_segment[1], 256) /\ PayloadOn(ts_segment[2], 256)
    /\ HeaderAt(2).cc = HeaderAt(1).cc
    /\ ~HeaderAt(3).has_payload /\ HeaderAt(3).pid = 256 /\ HeaderAt(3).cc = 8
    /\ ts_initial = NewAnalyzer
    /\ ts_metrics.continuity_errors = 0
    /\ ts_analyzer.cc_trackers[256].last_cc = HeaderAt(1).cc

\* the counter of the i-th chunk is the one before it plus one mod 16
Advances(i) == HeaderAt(i).cc = (HeaderAt(i - 1).cc + 1) % 16
\* the counter of the i-th chunk is neither the one before it nor that plus one
Jumps(i) == HeaderAt(i).cc \notin {HeaderAt(i - 1).cc, (HeaderAt(i - 1).cc + 1) % 16}
\* payload packets on a single PID whose counters advance by one except for
\* the jump at chunk j
OneJumpAt(j) ==
    /\ \E i \in 1..Len(ts_segment) : HeaderAt(i).pid # PID_NULL
    /\ \A i \in 1..Len(ts_segment) : PayloadOn(ts_segment[i], HeaderAt(1).pid)
    /\ j \in 2..Len(ts_segment)
    /\ Jumps(j)
    /\ \A i \in 2..Len(ts_segment) : i # j => Advances(i)

\* C24: on a fresh analyzer, a segment of payload packets on one PID whose
\* counters advance by one except for exactly one jump yields
\* continuity_errors = 1 and packet_count = the number of packets.
C24_OneJumpOneError ==
    (ts_initial = NewAnalyzer /\ Analyzed /\ \E j \in 2..Len(ts_segment) : OneJumpAt(j))
    => /\ ts_metrics.continuity_errors = 1
       /\ ts_metrics.packet_count = Len(ts_segment)

\* a segment whose counters jump and then go on has been analysed
C24_Witness ==
    /\ ts_initial = NewAnalyzer /\ Analyzed
    /\ Len(ts_segment) = 3 /\ OneJumpAt(2)
    /\ HeaderAt(1).cc = 5 /\ HeaderAt(2).cc = 8 /\ HeaderAt(3).cc = 9
    /\ ts_metrics.continuity_errors = 1

\* the chunk has sync byte 0x47, a non-null PID, PUSI set and table_id 0xFC
\* at the section start its pointer field gives
StartsSpliceInfo(chunk) ==
    /\ ByteAt(chunk, 0) = SYNC_BYTE
    /\ ParseHeader(chunk).pid # PID_NULL
    /\ ParseHeader(chunk).pusi
    /\ PayloadStart(chunk) < PACKET_SIZE
    /\ SectionStart(chunk) < PACKET_SIZE
    /\ ByteAt(chunk, SectionStart(chunk)) = SCTE35_TABLE_ID
\* the chunks read so far that start a splice_info_section
SpliceChunks == {i \in 1..ts_pos : StartsSpliceInfo(ts_segment[i])}

\* C25: scte35_messages equals the number of packets with sync byte 0x47, a
\* non-null PID, PUSI set and table_id 0xFC at the section start given by
\* the pointer field, and scte35_pids lists each PID of such a packet once.
C25_Scte35Count ==
    /\ ts_metrics.scte35_messages = Cardinality(SpliceChunks)
    /\ Range(ts_metrics.scte35_pids) = {HeaderAt(i).pid : i \in SpliceChunks}
    /\ Cardinality(Range(ts_metrics.scte35_pids)) = Len(ts_metrics.scte35_pids)

\* ---- HealthScore.compute -------------------------------------------------
\* C26: HealthScore.compute returns a score in [0,100]; its color is GREEN
\* iff score >= 80, YELLOW iff 50 <= score <= 79, RED iff score < 50.
C26_ScoreRangeAndColor ==
    computed.called
    => /\ computed.value.score \in 0..100
       /\ computed.value.color = "green" <=> computed.value.score >= 80
       /\ computed.value.color = "yellow" <=> computed.value.score \in 50..79
       /\ computed.value.color = "red" <=> computed.value.score < 50

\* every penalty at its cap: the deductions exceed 100 and the score is 0
C26_Witness ==
    /\ computed.called
    /\ compute_args = [error_rate |-> 1000, continuity_errors |-> 11, sync_errors |-> 6, transport_errors |-> 5, ttfb_avg |-> 1600, download_ratio |-> 0, manifest_errors |-> 3]
    /\ computed.value.score = 0
    /\ computed.value.color = "red"

\* the sum of the seven penalties for the arguments a
PenaltySum(a) ==
    Min(30, (a.error_rate * 10) \div 100)
    + Min(20, 2 * a.continuity_errors)
    + Min(25, 5 * a.sync_errors)
    + Min(15, 3 * a.transport_errors)
    + (IF a.ttfb_avg > 500 THEN Min(10, (a.ttfb_avg - 500) \div 100) ELSE 0)
    + (IF a.download_ratio < 100 THEN Min(15, ((100 - a.download_ratio) * 30) \div 100) ELSE 0)
    + Min(10, 5 * a.manifest_errors)

\* error_rate 2.0, continuity 10, sync 0, transport 0, ttfb 200, ratio 1.0, manifest 0
ExampleArgs == [error_rate |-> 200, continuity_errors |-> 10, sync_errors |-> 0, transport_errors |-> 0, ttfb_avg |-> 200, download_ratio |-> 100, manifest_errors |-> 0]

\* C27: HealthScore.compute returns max(0, 100 minus the sum of the capped
\* penalties); the example arguments give score 60 and color YELLOW.
C27_ScoreIsHundredMinusPenalties ==
    computed.called
    => /\ computed.value.score = Max(0, 100 - PenaltySum(compute_args))
       /\ compute_args = ExampleArgs
          => computed.value.score = 60 /\ computed.value.color = "yellow"

\* the example has been computed
C27_Witness ==
    /\ computed.called
    /\ compute_args = ExampleArgs
    /\ computed.value.score = 60
    /\ computed.value.factors = [error_rate |-> 20, continuity_errors |-> 20]

\* new is old, or old with one entry appended and only the last cap entries kept
KeepsNewest(old, new, cap) ==
    \/ new = old
    \/ new # <<>> /\ new = LastN(Append(old, new[Len(new)]), cap)

\* segment task t resumes from generate_thumbnail_for_segment in this step
Registers(t) ==
    /\ t \in DOMAIN segment_tasks
    /\ segment_tasks[t].pc = "thumb"
    /\ t \in DOMAIN segment_tasks' => segment_tasks'[t].pc # "thumb"

\* C28: the metrics history never holds more than 500 entries, the loudness
\* history 200, the SCTE-35 event list 100 and the thumbnail registry 50; an
\* append drops the oldest entries only, so each buffer holds the entries
\* appended most recently, in append order: the list buffers change by an
\* append that keeps the last entries, and the thumbnail a segment task has
\* just registered is in the registry.
C28_BuffersHoldNewest ==
    [][\A s \in Streams :
          /\ s \in DOMAIN metrics_history' => Len(metrics_history'[s]) <= 500
          /\ s \in DOMAIN loudness_history' => Len(loudness_history'[s]) <= 200
          /\ s \in DOMAIN scte35_events' => Len(scte35_events'[s]) <= 100
          /\ s \in DOMAIN thumbnail_registry' => Cardinality(thumbnail_registry'[s]) <= 50
          /\ s \in DOMAIN metrics_history /\ s \in DOMAIN metrics_history'
                => KeepsNewest(metrics_history[s], metrics_history'[s], 500)
          /\ s \in DOMAIN loudness_history /\ s \in DOMAIN loudness_history'
                => KeepsNewest(loudness_history[s], loudness_history'[s], 200)
          /\ s \in DOMAIN scte35_events /\ s \in DOMAIN scte35_events'
                => KeepsNewest(scte35_events[s], scte35_events'[s], 100)
          /\ \A t \in DOMAIN segment_tasks :
                Registers(t) /\ segment_tasks[t].stream_id = s
                   => /\ s \in DOMAIN thumbnail_registry'
                      /\ segment_tasks[t].tseq \in thumbnail_registry'[s]
      ]_vars

\* the webhooks the claim names for event_type: enabled, and the events list
\* empty or containing the type
Named(event_type) ==
    {w \in DOMAIN webhooks :
        /\ webhooks[w].enabled
        /\ webhooks[w].events = <<>> \/ event_type \in Range(webhooks[w].events)}

\* send_event is called in this step
Calls == Len(send_events') = Len(send_events) + 1

\* call c never issued two POSTs to a webhook nor one to a webhook it did not
\* create a coroutine for, and once it returned it issued one to each of them
PostedOnce(call) ==
    /\ \A w \in WebhookIds : call.posts[w] <= 1
    /\ \A w \in WebhookIds \ call.tasks : call.posts[w] = 0
    /\ GatherReturned(call) => \A w \in call.tasks : call.posts[w] = 1

\* C29 as stated: send_event issues exactly one POST to every enabled webhook
\* whose events list is empty or contains event_type, none to the others,
\* whatever the outcome of the other POSTs.
C29_OnePostPerNamedWebhook ==
    [][/\ Calls => send_events'[Len(send_events')].tasks
                      = Named(send_events'[Len(send_events')].event_type)
       /\ \A c \in DOMAIN send_events' : PostedOnce(send_events'[c])
      ]_vars

\* C29, amended: while the service's session is open (after start(), before
\* stop()), send_event issues exactly one POST to every enabled webhook whose
\* events list is empty or contains event_type and none to the others; a
\* failed POST is not retried and does not prevent the other POSTs.
C29_OnePostPerNamedWebhookWhileStarted ==
    [][session' = "open"
         => /\ Calls => send_events'[Len(send_events')].tasks
                           = Named(send_events'[Len(send_events')].event_type)
            /\ \A c \in DOMAIN send_events' : PostedOnce(send_events'[c])
      ]_vars

\* a call returned while the session is open: two POSTs, one of them failed,
\* one of them to a webhook with an empty events list
C29_Witness ==
    /\ session = "open"
    /\ \E c \in DOMAIN send_events :
          /\ GatherReturned(send_events[c])
          /\ send_events[c].tasks = WebhookIds
          /\ \A w \in WebhookIds : send_events[c].posts[w] = 1
          /\ Cardinality(send_events[c].failed) = 1
          /\ \E w \in send_events[c].tasks : w \in DOMAIN webhooks /\ webhooks[w].events = <<>>

\* the step that led to this state published the event type on the bus of s
Published(s, type) == Ev("publish", s, type, "bus") \in emitted

\* the health score of s is the one _update_health_score computes from the
\* metrics history and the TR 101 290 counters
HealthScoreCurrent(s) ==
    stream_health[s].health_score = update_health_score(State, s).stream_health[s].health_score

\* C30: when the segment_downloaded event of a segment is published, the
\* stream's health score has been recomputed from a history that holds the
\* segment's metrics; and a subscriber of the stream's bus when the event was
\* published is sent a health_update derived from the analysis of the segment
\* only after it was sent the segment_downloaded event.
C30_MetricsBeforeHealthUpdate ==
    \A s \in Streams :
       /\ Published(s, "segment_downloaded") /\ s \in DOMAIN stream_health
             => /\ s \in DOMAIN metrics_history
                /\ \E i \in DOMAIN metrics_history[s] : metrics_history[s][i].uri \in seen_segments[s]
                /\ HealthScoreCurrent(s)
       /\ \A c \in Range(PubConns) :
             /\ Ev("send", s, "health_update", c) \in emitted
             /\ Ev("subscribed", s, "segment_downloaded", c) \in sent
             => Ev("send", s, "segment_downloaded", c) \in sent

\* the thousandths v is a nearest one to num / den, 0 when den <= 0
NearestMilli(v, num, den) ==
    IF den <= 0 THEN v = 0
    ELSE /\ 2 * (v * den - num) <= den
         /\ 2 * (num - v * den) <= den

\* C31: for every recorded segment, actual_bitrate is size_bytes * 8 /
\* duration / 1e6 and download_speed is size_bytes * 8 / (download_time / 1000)
\* / 1e6, both rounded to the nearest thousandth, and each is 0 when its
\* denominator is 0 or negative
C31_BitrateAndSpeed ==
    calculated.called =>
        LET m == calculated.metrics
        IN  /\ NearestMilli(m.actual_bitrate, m.segment_size_bytes * 8, m.segment_duration)
            /\ NearestMilli(m.download_speed, m.segment_size_bytes * 8, m.download_time)

\* a recorded segment of 1 MB lasting 6 s and downloaded in 7 s
C31_Witness ==
    /\ calculated.called
    /\ calculated.metrics.segment_size_bytes = 1000000
    /\ calculated.metrics.segment_duration = 6000
    /\ calculated.metrics.actual_bitrate = 1333
    /\ calculated.metrics.download_speed = 1143

\* the record keeps its identity, severity, message, acknowledged flag and
\* its place in the history and in the active map; its timestamp is the time
\* of the call and its metadata the old ones updated with those of the call
KeptButRefreshed(stream_id, alert_type, ref, metadata) ==
    /\ alerts'[ref].alert_id = alerts[ref].alert_id
    /\ alerts'[ref].severity = alerts[ref].severity
    /\ alerts'[ref].message = alerts[ref].message
    /\ alerts'[ref].acknowledged = alerts[ref].acknowledged
    /\ alerts'[ref] = [alerts[ref] EXCEPT !.timestamp = now,
                                          !.metadata = Merged(@, metadata)]
    /\ alert_history' = alert_history
    /\ alert_counter' = alert_counter
    /\ ActiveRef(State, stream_id, alert_type)' = ref

\* C32: a raise_alert with the severity ERROR for a (stream, type) whose
\* WARNING alert is unresolved, called directly or by check_health_thresholds
\* when the error rate reaches the critical threshold, leaves the record its
\* alert_id, severity, message, acknowledged flag and position in the history,
\* changes only its timestamp and metadata, and returns None
C32_EscalationKeepsRecord ==
    [][\A stream_id \in Streams :
         ("high_error_rate" \in ActiveTypes(State, stream_id)
            /\ alerts[ActiveRef(State, stream_id, "high_error_rate")].severity = "warning")
         => LET ref == ActiveRef(State, stream_id, "high_error_rate")
            IN  /\ \A metadata \in MetadataInputs :
                     RaiseAlert(stream_id, "high_error_rate", "error", metadata)
                     => /\ KeptButRefreshed(stream_id, "high_error_rate", ref, metadata)
                        /\ raise_alert(State, stream_id, "high_error_rate", "error", [text |-> "raised", value |-> 0], metadata, now).ret = None
                /\ CheckHealthThresholds(stream_id, 70, [Healthy EXCEPT !.error_rate = ERROR_RATE_CRITICAL])
                     => KeptButRefreshed(stream_id, "high_error_rate", ref, [error_rate |-> ERROR_RATE_CRITICAL])]_vars

\* an acknowledged, unresolved warning "Elevated error rate" raised at 1 %
\* whose metadata hold the critical rate of a later check
C32_Witness ==
    \E stream_id \in Streams :
        /\ "high_error_rate" \in ActiveTypes(State, stream_id)
        /\ LET a == alerts[ActiveRef(State, stream_id, "high_error_rate")]
           IN  /\ a.severity = "warning"
               /\ a.message = [text |-> "Elevated error rate", value |-> ERROR_RATE_WARNING]
               /\ a.metadata = [error_rate |-> ERROR_RATE_CRITICAL]
               /\ a.acknowledged
               /\ a.timestamp = 1

\* the factors HealthScore.compute knows
FactorNames == {"error_rate", "continuity_errors", "sync_errors", "transport_errors", "high_ttfb", "slow_download", "manifest_errors"}

\* the points the call took off the score for the factor
PenaltyApplied(args, f) ==
    Max(0, HealthPenalties(args.error_rate, args.continuity_errors, args.sync_errors, args.transport_errors, args.ttfb_avg, args.download_ratio, args.manifest_errors)[f])

\* C33: the factors map returned by HealthScore.compute has an entry for a
\* factor exactly when the penalty applied for that factor is greater than 0
C33_FactorsIffPenalty ==
    computed.called =>
        \A f \in FactorNames :
            f \in DOMAIN computed.value.factors <=> PenaltyApplied(compute_args, f) > 0

\* C34: a segment-processing or thumbnail task that was in flight when
\* remove_stream(id) ran puts no entry for id back into a keyed registry when
\* it resumes or completes: while the stream stays removed, no dictionary of
\* the Monitor Engine, nor the thumbnail cache or the thumbnail registry,
\* gains an entry for id
C34_NoEntryPutBack ==
    [][\A stream_id \in Streams :
          (stream_id \notin DOMAIN active_streams /\ stream_id \notin DOMAIN active_streams')
          => \A reg \in RegistriesHolding(stream_id)' :
                reg[2] => <<reg[1], TRUE>> \in RegistriesHolding(stream_id)]_vars

\* C35: broadcast(id, msg) completes without raising under every
\* interleaving with concurrent connect, disconnect and broadcast calls for
\* the same stream: no step of a broadcast ends it with an exception
C35_BroadcastNeverRaises ==
    \A e \in emitted : ~(e.ch = "raise" /\ e.to = "broadcast")

\* the analyzer after the first n calls, had it been given only the
\* segments of stream_id among them
RECURSIVE OwnAnalyzer(_, _)
OwnAnalyzer(stream_id, n) ==
    IF n = 0 THEN NewAnalyzer
    ELSE IF ts_calls[n].stream_id = stream_id
    THEN analyze_segment(OwnAnalyzer(stream_id, n - 1), ts_calls[n].segment).a
    ELSE OwnAnalyzer(stream_id, n - 1)

\* C36: the continuity_errors and pcr_discontinuities reported for a segment
\* of a stream depend only on the packets of that stream's own segments
\* analysed before it: they are the values an analyzer that was given those
\* segments alone reports
C36_OwnSegmentsOnly ==
    \A i \in DOMAIN ts_calls :
        LET own == analyze_segment(OwnAnalyzer(ts_calls[i].stream_id, i - 1), ts_calls[i].segment).metrics
        IN  /\ ts_calls[i].metrics.continuity_errors = own.continuity_errors
            /\ ts_calls[i].metrics.pcr_discontinuities = own.pcr_discontinuities

\* the lines of the daily files of the days first..last, in ascending date
\* order, the plain file of a day before its gzipped one, that match the filters
RECURSIVE MatchingOfDays(_, _, _, _, _)
MatchingOfDays(files, first, last, stream_id, event_type) ==
    IF first > last THEN <<>>
    ELSE LET log_file == [dir |-> stream_id, day |-> first, gz |-> FALSE]
         IN  ReadLogFile(files, log_file, stream_id, event_type, DEFAULT_LIMIT)
             \o ReadLogFile(files, GzFile(log_file), stream_id, event_type, DEFAULT_LIMIT)
             \o MatchingOfDays(files, first + 1, last, stream_id, event_type)

\* C37: read_events(start, end, ...) examines the daily file of every
\* calendar date from start's date to end's date inclusive, in ascending date
\* order, also when end's time of day is earlier than start's, and returns at
\* most limit events, all of which match the stream_id and event_type filters:
\* it returns the first limit matching lines of those files
C37_ReadsEveryDate ==
    \A start_date, end_date \in 0..MaxLogTime, stream_id \in Streams, event_type \in {None, "stream_added"}, limit \in {1, DEFAULT_LIMIT} :
        start_date <= end_date
        => LET events == read_events(log_files, start_date, end_date, stream_id, event_type, limit)
           IN  /\ Len(events) <= limit
               /\ \A i \in DOMAIN events : MatchesFilter(events[i], stream_id, event_type)
               /\ events = Take(MatchingOfDays(log_files, DateOf(start_date), DateOf(end_date), stream_id, event_type), limit)

\* the appends in progress: between aiofiles.open and the close of the file
InProgress == {id \in DOMAIN appends : appends[id].step \in {"open", "write", "close"}}

\* C38: at no time are two appends to the same log file path in progress at
\* once; every append in progress holds the lock that _file_locks has for
\* its path, the one lock all writers of the path use; and every event whose
\* append was made is exactly one line of its file
C38_AppendsSerialized ==
    /\ \A i, j \in InProgress : appends[i].log_file = appends[j].log_file => i = j
    /\ \A i \in InProgress :
          /\ appends[i].log_file \in DOMAIN file_locks
          /\ file_locks[appends[i].log_file].locked
    /\ \A a \in log_written :
          LET log_file == LogFilename(a.time, a.dir)
          IN  /\ log_file \in DOMAIN log_files
              /\ Cardinality({i \in DOMAIN log_files[log_file] : log_files[log_file][i] = a.event}) = 1

\* a file with a line, an append to it in progress and another writer
\* waiting for its lock
C38_Witness ==
    \E i \in InProgress :
        /\ appends[i].log_file \in DOMAIN log_files
        /\ Len(file_locks[appends[i].log_file].waiters) = 1

\* the size of the file in bytes
FileSize == PACKET_SIZE * Len(ts_segment) + ts_tail

\* the sum of pid_counts over all PIDs
PidTotal(metrics) == SumOver(metrics.pid_counts, DOMAIN metrics.pid_counts)

\* the counters and the per-PID state the checks of a packet may touch
Checked(metrics, a) == <<metrics.continuity_errors, metrics.pat_errors, metrics.pcr_count, metrics.pcr_discontinuities, metrics.scte35_pids, metrics.scte35_messages, a>>

\* C39: packet_count is the number of complete 188-byte chunks of the file
\* when the call returns, a trailing partial chunk being ignored;
\* packet_count = sync_byte_errors + the sum of pid_counts at every moment; a
\* packet whose first byte is not 0x47 changes no counter other than
\* packet_count and sync_byte_errors and no per-PID tracker; and a null packet
\* (PID 0x1FFF) is not checked for continuity, PAT, PCR or SCTE-35
C39_PacketAccounting ==
    [][ReadChunk
       => /\ ts_returned' => ts_metrics'.packet_count = FileSize \div PACKET_SIZE
          /\ ts_metrics'.packet_count = ts_metrics'.sync_byte_errors + PidTotal(ts_metrics')
          /\ ts_pos' # ts_pos
             => LET chunk == ts_segment[ts_pos + 1]
                IN  /\ ByteAt(chunk, 0) # SYNC_BYTE
                       => /\ ts_metrics' = [ts_metrics EXCEPT !.packet_count = @ + 1, !.sync_byte_errors = @ + 1]
                          /\ ts_analyzer' = ts_analyzer
                    /\ (ByteAt(chunk, 0) = SYNC_BYTE /\ ParseHeader(chunk).pid = PID_NULL)
                       => Checked(ts_metrics', ts_analyzer') = Checked(ts_metrics, ts_analyzer)]_vars

\* the call returned for a file of three complete chunks and 187 more
\* bytes: a packet with a damaged sync byte, a null packet and a payload packet
C39_Witness ==
    /\ ts_returned
    /\ ts_tail = PACKET_SIZE - 1
    /\ ts_metrics.packet_count = 3
    /\ ts_metrics.sync_byte_errors = 1
    /\ ts_metrics.null_packet_count = 1
    /\ 256 \in DOMAIN ts_metrics.pid_counts

\* what the services hold for a stream: its entries in the registries of
\* the Monitor Engine and of the thumbnail generator, its supervisor and
\* segment tasks, its alerts and its place in the alert history, and its
\* subscriber set on the bus
StreamView(b) ==
    [registries |-> RegistriesHolding(b),
     config |-> IF b \in DOMAIN active_streams THEN <<active_streams[b]>> ELSE <<>>,
     supervisor |-> IF b \in DOMAIN monitoring_tasks THEN <<monitoring_tasks[b]>> ELSE <<>>,
     seen |-> IF b \in DOMAIN seen_segments THEN <<seen_segments[b]>> ELSE <<>>,
     current |-> IF b \in DOMAIN stream_metrics THEN <<stream_metrics[b]>> ELSE <<>>,
     counter |-> IF b \in DOMAIN segment_counter THEN <<segment_counter[b]>> ELSE <<>>,
     thumbnails |-> IF b \in DOMAIN thumbnails_buffer THEN <<thumbnails_buffer[b]>> ELSE <<>>,
     health |-> IF b \in DOMAIN stream_health THEN <<stream_health[b]>> ELSE <<>>,
     manifest |-> IF b \in DOMAIN last_manifest_state THEN <<last_manifest_state[b]>> ELSE <<>>,
     history |-> IF b \in DOMAIN metrics_history THEN <<metrics_history[b]>> ELSE <<>>,
     scte35 |-> IF b \in DOMAIN scte35_events THEN <<scte35_events[b]>> ELSE <<>>,
     loudness |-> IF b \in DOMAIN loudness_history THEN <<loudness_history[b]>> ELSE <<>>,
     cache |-> IF b \in DOMAIN thumb_cache THEN <<thumb_cache[b]>> ELSE <<>>,
     registry |-> IF b \in DOMAIN thumbnail_registry THEN <<thumbnail_registry[b]>> ELSE <<>>,
     tasks |-> {segment_tasks[t] : t \in {x \in DOMAIN segment_tasks : segment_tasks[x].stream_id = b}},
     active |-> IF b \in DOMAIN active_alerts THEN <<active_alerts[b]>> ELSE <<>>,
     alerts |-> [r \in HeldFor(b) |-> alerts[r]],
     raised |-> SeqFilter(alert_history, {r \in Range(alert_history) : alerts[r].stream_id = b}),
     checked |-> b \in last_checks,
     subscribers |-> IF b \in DOMAIN active_connections THEN <<active_connections[b]>> ELSE <<>>]

\* the step is an operation of the Monitor Engine performed for stream a
OperationFor(a) ==
    \/ \E stream_config \in FrameConfigs : stream_config.id = a /\ FrameAddStream(stream_config)
    \/ RemoveStream(a)
    \/ SupFetchFail(a)
    \/ FrameSupFetchOk(a, MediaOne)
    \/ \E ok \in BOOLEAN : FrameSupSendDone(a, ok)
    \/ SupWake(a)
    \/ \E t \in {x \in DOMAIN segment_tasks : segment_tasks[x].stream_id = a} :
          \/ SegDownloadFail(t)
          \/ \E d \in Downloads : SegDownloadOk(t, d)
          \/ FrameSegProbeDone(t)
          \/ SegThumbDone(t)
          \/ \E ok \in BOOLEAN : SegSendDone(t, ok)
          \/ SegLogDone(t)

\* C40: add_stream(a), remove_stream(a) and every supervisor,
\* segment-processing, health-scoring and alert operation performed for
\* stream a leave what is held for every other stream b unchanged: its
\* registry entries, seen-set, segment counter, health, metrics history,
\* alerts and bus subscriber set
C40_OtherStreamsUntouched ==
    [][\A b \in FrameStreams :
          StreamView(b)' # StreamView(b)
          => \A a \in FrameStreams \ {b} : ~OperationFor(a)]_vars

\* stream b is monitored with a segment in its metrics history, an
\* unresolved alert and a subscriber, and stream a, which recorded a segment
\* too, has been removed
C40_Witness ==
    /\ "b" \in DOMAIN active_streams
    /\ "b" \in DOMAIN metrics_history /\ metrics_history["b"] # <<>>
    /\ get_active_alerts(State, "b") # {}
    /\ "b" \in DOMAIN active_connections
    /\ "a" \notin DOMAIN active_streams
    /\ "a" \in DOMAIN stream_metrics

====
